---- MODULE Spec2Model ----
(***************************************************************************)
(* A model of the Lattice backend: the streaming anomaly detector          *)
(* (backend-domain/src/services/analyzer.rs), the mod-config hub           *)
(* (backend-application/src/commands/mod_config_commands.rs and friends)   *)
(* the alert delivery service                                              *)
(* (backend-infrastructure/src/services/alert_service.rs) and the ingest   *)
(* pipeline (backend-application/src/commands/ingest_commands.rs).         *)
(*                                                                         *)
(* Conventions.  Option<T> is a sequence of length 0 (None) or 1 (Some).   *)
(* A HashMap is a function whose DOMAIN is its key set.  Times are         *)
(* milliseconds.  Event times stay far inside the i64 range, so that no    *)
(* subtraction of two times overflows.                                     *)
(***************************************************************************)
EXTENDS Integers, Sequences, FiniteSets, TLC

VARIABLES
    analyzer,        \* Analyzer: the six detector structures
    key_rules,       \* AppState.key_rules: item_id -> KeyItemRule
    strict_enabled,  \* RuntimeConfig.strict_enabled
    now,             \* the wall clock as last read by current_millis()
    anomalies,       \* the Vec<AnomalyRow> the last analyze_batch returned
    trace,           \* history: per event of the last batch, what it met and emitted
    processed,       \* history: number of events handed to the detector so far
    recorded,        \* history: the TRANSFER events recorded by earlier batches
    log,             \* history: every event of every batch, under SpecWindows
    mod_configs,     \* AppState.mod_configs: server_id -> cached ModConfigEnvelope
    disk,            \* the mod-config files: server_id -> persisted ModConfigEnvelope
    disk0,           \* history: the mod-config files the service started with
    put,             \* per put_mod_config call: its position and its locals
    returns,         \* history: the envelopes put_mod_config returned, in return order
    sub,             \* per stream_mod_config call: its position and its locals
    inbox,           \* per subscriber: the envelopes sent to its receiver, not yet received
    received,        \* history: per subscriber, the envelopes recv() returned, in order
    deliveries,      \* DefaultAlertService.deliveries: the VecDeque of delivery records
    history_limit,   \* DefaultAlertService.history_limit
    tasks,           \* per spawn_alerts call: the position and the locals of its task
    wall_ms,         \* the clock chrono::Utc::now() reads, as a count of readings
    ingest,          \* per ingest request: its position and its locals
    analyzer_lock,   \* AppState.analyzer's mutex: the request holding the guard, or 0
    metrics,         \* AppState.metrics: the four counters
    event_repo,      \* the batches insert_events stored, in order
    anomaly_repo,    \* the batches insert_anomalies stored, in order
    pull,            \* per pull_mod_config call: its position and its locals
    files,           \* the files of the config store: kind -> content, if present
    replace,         \* per update_key_items call: its position and its locals
    op_config,       \* RuntimeConfig: op_token_allowed_group_ids and op_token_admin_ids
    op_token,        \* per issue_op_token call: its position and its locals
    last_load,       \* the last load of the config store: the operation and its result
    ws,              \* a send_ws_alerts call: its position, its locals and its tries
    ring,            \* a broadcast channel of the stream hub and one of its receivers
    bridge,          \* per bot url: the position and the locals of its bridge task
    boot             \* a start_embedded call and the worker thread it spawns

det_vars == <<analyzer, key_rules, strict_enabled, now, anomalies, trace, processed, recorded, log>>
mc_vars == <<mod_configs, disk, disk0, put, returns, sub, inbox, received>>
al_vars == <<deliveries, history_limit, tasks, wall_ms>>
in_vars == <<ingest, analyzer_lock, metrics, event_repo, anomaly_repo>>
ops_vars == <<pull, files, replace, op_config, op_token, last_load, ws, ring, bridge, boot>>
\* what the actions of pull_mod_config, of update_key_items, of issue_op_token and
\* of the config store leave alone among these
beside_pull == <<files, replace, op_config, op_token, last_load, ws, ring, bridge, boot>>
beside_rules == <<pull, op_config, op_token, last_load, ws, ring, bridge, boot>>
beside_token == <<pull, files, replace, last_load, ws, ring, bridge, boot>>
beside_store == <<pull, replace, op_config, op_token, ws, ring, bridge, boot>>
\* what the actions of the socket send, of the broadcast channel, of the bridge
\* tasks and of start_embedded leave alone
beside_ws == <<pull, files, replace, op_config, op_token, last_load, ring, bridge, boot>>
beside_ring == <<pull, files, replace, op_config, op_token, last_load, ws, bridge, boot>>
beside_bridge == <<pull, files, replace, op_config, op_token, last_load, ws, ring, boot>>
beside_boot == <<pull, files, replace, op_config, op_token, last_load, ws, ring, bridge>>
vars == <<det_vars, mc_vars, al_vars, in_vars, ops_vars>>
\* what the actions of the detector, of the mod-config hub and of the alert
\* service leave alone (the ingest pipeline drives the detector and the alert
\* service, its actions name what they leave alone)
outside_det == <<mc_vars, al_vars, in_vars, ops_vars>>
outside_mc == <<det_vars, al_vars, in_vars, ops_vars>>
outside_al == <<det_vars, mc_vars, in_vars, ops_vars>>

(***************************************************************************)
(* Option and HashMap helpers                                              *)
(***************************************************************************)
None == <<>>
Some(x) == <<x>>
unwrap_or_default(o) == IF o = None THEN "" ELSE o[1]
unwrap_or_zero(o) == IF o = None THEN 0 ELSE o[1]
EmptyMap == [k \in {} |-> <<>>]
Put(m, k, v) == [x \in (DOMAIN m) \cup {k} |-> IF x = k THEN v ELSE m[x]]
Remove(m, ks) == [x \in (DOMAIN m) \ ks |-> m[x]]
or_default(m, k) == IF k \in DOMAIN m THEN m[k] ELSE <<>>
Abs(n) == IF n < 0 THEN 0 - n ELSE n

(***************************************************************************)
(* Configuration (RuntimeConfig) and the constants of the detector         *)
(***************************************************************************)
transfer_window_seconds == 2
key_item_window_minutes == 10
strict_pickup_window_seconds == 30
\* strict_pickup_threshold is configurable; the model runs with a small value
StrictPickupThreshold == 3
DUP_PICKUP_WINDOW_MS == 15000
DUP_PICKUP_THRESHOLD == 2
AUDIT_WINDOW_MS == 30000
AUDIT_THRESHOLD == 16
R3_CROSS_PLAYER_WINDOW_MS == 10000
R5_WINDOW_MS == 30000
R8_WINDOW_MS == 21600000
\* The last millisecond OffsetDateTime::from_unix_timestamp_nanos accepts.  The
\* real limit (the end of year 9999) is scaled down to fit the checker's integers;
\* it stays above every window constant.
MaxUtcMs == 1999999999

\* the four arguments process_ingest_events passes to analyze_batch
transfer_window_ms == transfer_window_seconds * 1000
key_item_window_ms == key_item_window_minutes * 60000
strict_pickup_window_ms == IF strict_enabled THEN strict_pickup_window_seconds * 1000 ELSE 0
strict_pickup_threshold == IF strict_enabled THEN StrictPickupThreshold ELSE 0

(***************************************************************************)
(* KeyItemRule                                                             *)
(***************************************************************************)
effective_threshold(rule) ==
    IF rule.threshold # None THEN rule.threshold[1] ELSE unwrap_or_zero(rule.max_per_10m)

\* str::trim().to_uppercase() on the risk levels that occur in the rule sets
TrimUpper(s) ==
    CASE s = "high" -> "HIGH"
      [] s = " low " -> "LOW"
      [] s = " " -> ""
      [] OTHER -> s

effective_risk_level(rule) ==
    IF rule.risk_level # None
    THEN LET upper == TrimUpper(rule.risk_level[1])
         IN  IF upper = "" THEN "MEDIUM" ELSE upper
    ELSE IF rule.weight # None /\ rule.weight[1] >= 8 THEN "HIGH" ELSE "MEDIUM"

(***************************************************************************)
(* Detector helpers                                                        *)
(***************************************************************************)
\* str::trim().is_empty() on the item ids that occur in the event sets
IsBlank(s) == s \in {"", " "}

millis_to_utc(ms, clock) == IF Abs(ms) <= MaxUtcMs THEN ms ELSE clock

is_world_pickup(event, origin_type) ==
    origin_type = "world_pickup" \/ event.storage_id = Some("world")

fingerprint_of(event) ==
    IF event.item_fingerprint # None THEN event.item_fingerprint[1]
    ELSE event.item_id \o ":" \o unwrap_or_default(event.nbt_hash)

build_anomaly(event, risk, rule_id, clock) ==
    [ event_time  |-> millis_to_utc(event.event_time, clock),
      player_uuid |-> unwrap_or_default(event.player_uuid),
      item_id     |-> event.item_id,
      count       |-> event.count,
      risk_level  |-> risk,
      rule_id     |-> rule_id ]

record_transfer(cache, event) ==
    Append(cache, [ time_ms          |-> event.event_time,
                    player_uuid      |-> unwrap_or_default(event.player_uuid),
                    item_fingerprint |-> fingerprint_of(event),
                    count            |-> event.count ])

TransferMatches(record, player_uuid, item_fingerprint, count, window_ms, event_time) ==
    /\ record.player_uuid = player_uuid
    /\ record.item_fingerprint = item_fingerprint
    /\ record.count = count
    /\ Abs(event_time - record.time_ms) <= window_ms

\* find_transfer with the window bound made exclusive (< instead of <=)
RECURSIVE find_transfer_exclusive(_, _, _, _, _, _)
find_transfer_exclusive(cache, player_uuid, item_fingerprint, count, window_ms, event_time) ==
    IF cache = <<>> THEN None
    ELSE IF TransferMatches(cache[Len(cache)], player_uuid, item_fingerprint, count,
                            window_ms - 1, event_time)
         THEN Some(cache[Len(cache)])
         ELSE find_transfer_exclusive(SubSeq(cache, 1, Len(cache) - 1), player_uuid,
                                      item_fingerprint, count, window_ms - 1, event_time)

\* transfer_cache.iter().rev().find(..).cloned()
RECURSIVE find_transfer(_, _, _, _, _, _)
find_transfer(cache, player_uuid, item_fingerprint, count, window_ms, event_time) ==
    IF cache = <<>> THEN None
    ELSE IF TransferMatches(cache[Len(cache)], player_uuid, item_fingerprint, count,
                            window_ms, event_time)
         THEN Some(cache[Len(cache)])
         ELSE find_transfer(SubSeq(cache, 1, Len(cache) - 1), player_uuid,
                            item_fingerprint, count, window_ms, event_time)

\* EvictFront with the loop left out: nothing is evicted
EvictFront_none(window, ref, win) == window

\* while let Some(front) = window.front() { if ref - *front > win { pop_front } else { break } }
RECURSIVE EvictFront(_, _, _)
EvictFront(window, ref, win) ==
    IF window # <<>> /\ ref - window[1] > win
    THEN EvictFront(Tail(window), ref, win)
    ELSE window

\* the same loop over a deque of records with a time_ms field
RECURSIVE EvictFrontRec(_, _, _)
EvictFrontRec(window, ref, win) ==
    IF window # <<>> /\ ref - window[1].time_ms > win
    THEN EvictFrontRec(Tail(window), ref, win)
    ELSE window

RECURSIVE SumCounts(_)
SumCounts(window) ==
    IF window = <<>> THEN 0 ELSE window[1].count + SumCounts(Tail(window))

RECURSIVE Repeat(_, _)
Repeat(x, n) == IF n <= 0 THEN <<>> ELSE <<x>> \o Repeat(x, n - 1)

Whitelist ==
    { "world_pickup", "container_click", "storage_transfer", "craft", "smelt", "trade",
      "loot", "barter", "fishing", "smithing", "stonecutting", "grindstone", "anvil",
      "brewing", "loom", "cartography", "enchant", "inventory_audit", "command" }

(***************************************************************************)
(* Analyzer::cleanup                                                       *)
(***************************************************************************)
\* a window map after the front eviction of every value (timestamps)
EvictAll(windows, ref, win) ==
    [k \in DOMAIN windows |-> EvictFront(windows[k], ref, win)]

\* the same for maps of record deques
EvictAllRec(windows, ref, win) ==
    [k \in DOMAIN windows |-> EvictFrontRec(windows[k], ref, win)]

\* the keys whose window emptied are removed
DropEmpty(windows) == Remove(windows, {k \in DOMAIN windows : windows[k] = <<>>})

cleanup(st, clock, tw, kw, sw) ==
    [ transfer_cache        |-> EvictFrontRec(st.transfer_cache, clock, tw),
      origin_seen           |-> st.origin_seen,
      key_item_windows      |-> EvictAll(st.key_item_windows, clock, kw),
      pickup_windows        |-> DropEmpty(EvictAll(st.pickup_windows, clock, DUP_PICKUP_WINDOW_MS)),
      audit_windows         |-> DropEmpty(EvictAllRec(st.audit_windows, clock, AUDIT_WINDOW_MS)),
      strict_pickup_windows |-> IF sw > 0
                                THEN DropEmpty(EvictAllRec(st.strict_pickup_windows, clock, sw))
                                ELSE st.strict_pickup_windows ]

(***************************************************************************)
(* Analyzer::analyze_batch, one event of the loop                          *)
(***************************************************************************)
\* an INVENTORY_SNAPSHOT or STORAGE_SNAPSHOT event
\* analyze_snapshot with the threshold test made inclusive (>= instead of >)
analyze_snapshot_inclusive(event, rules, clock) ==
    IF event.item_id \in DOMAIN rules
    THEN LET rule == rules[event.item_id]
             threshold == effective_threshold(rule)
         IN  IF threshold > 0 /\ event.count >= threshold
             THEN <<build_anomaly(event, effective_risk_level(rule),
                                  IF event.event_type = "INVENTORY_SNAPSHOT" THEN "R9" ELSE "R12",
                                  clock)>>
             ELSE <<>>
    ELSE <<>>

analyze_snapshot(event, rules, clock) ==
    IF event.item_id \in DOMAIN rules
    THEN LET rule == rules[event.item_id]
             threshold == effective_threshold(rule)
         IN  IF threshold > 0 /\ event.count > threshold
             THEN <<build_anomaly(event, effective_risk_level(rule),
                                  IF event.event_type = "INVENTORY_SNAPSHOT" THEN "R9" ELSE "R12",
                                  clock)>>
             ELSE <<>>
    ELSE <<>>

\* origin_check with the R3 bound made inclusive (<= instead of <)
origin_check_inclusive(st, event, player_uuid, origin_id, origin_type, has_transfer, clock) ==
    IF origin_id # "" /\ origin_id \in DOMAIN st.origin_seen
    THEN LET prev_player == st.origin_seen[origin_id][1]
             prev_time == st.origin_seen[origin_id][2]
             delta == Abs(event.event_time - prev_time)
         IN  IF prev_player # player_uuid /\ delta <= R3_CROSS_PLAYER_WINDOW_MS
             THEN <<build_anomaly(event, "HIGH", "R3", clock)>>
             ELSE IF prev_player = player_uuid /\ ~has_transfer
                     /\ is_world_pickup(event, origin_type)
                  THEN IF delta < R5_WINDOW_MS
                       THEN <<build_anomaly(event, "MEDIUM", "R5", clock)>>
                       ELSE IF delta < R8_WINDOW_MS
                            THEN <<build_anomaly(event, "MEDIUM", "R8", clock)>>
                            ELSE <<>>
                  ELSE <<>>
    ELSE <<>>

\* the R3 / R5 / R8 checks against origin_seen
origin_check(st, event, player_uuid, origin_id, origin_type, has_transfer, clock) ==
    IF origin_id # "" /\ origin_id \in DOMAIN st.origin_seen
    THEN LET prev_player == st.origin_seen[origin_id][1]
             prev_time == st.origin_seen[origin_id][2]
             delta == Abs(event.event_time - prev_time)
         IN  IF prev_player # player_uuid /\ delta < R3_CROSS_PLAYER_WINDOW_MS
             THEN <<build_anomaly(event, "HIGH", "R3", clock)>>
             ELSE IF prev_player = player_uuid /\ ~has_transfer
                     /\ is_world_pickup(event, origin_type)
                  THEN IF delta < R5_WINDOW_MS
                       THEN <<build_anomaly(event, "MEDIUM", "R5", clock)>>
                       ELSE IF delta < R8_WINDOW_MS
                            THEN <<build_anomaly(event, "MEDIUM", "R8", clock)>>
                            ELSE <<>>
                  ELSE <<>>
    ELSE <<>>

analyze_acquire(st, event, rules, tw, kw, sw, sth, clock) ==
    LET player_uuid == unwrap_or_default(event.player_uuid)
        item_fingerprint == fingerprint_of(event)
        count == event.count
        origin_id == unwrap_or_default(event.origin_id)
        origin_type == unwrap_or_default(event.origin_type)
        nbt_hash == unwrap_or_default(event.nbt_hash)
        transfer_match == find_transfer(st.transfer_cache, player_uuid, item_fingerprint,
                                        count, tw, event.event_time)
        has_transfer == transfer_match # None
        \* R1, R2
        a1 == IF origin_id = "" /\ ~has_transfer
              THEN <<build_anomaly(event, "HIGH", "R1", clock)>> ELSE <<>>
        a2 == IF origin_type # "" /\ origin_type \notin Whitelist /\ ~has_transfer
              THEN <<build_anomaly(event, "HIGH", "R2", clock)>> ELSE <<>>
        \* R3, R5, R8 and the update of origin_seen
        a3 == origin_check(st, event, player_uuid, origin_id, origin_type, has_transfer, clock)
        origin_seen1 == IF origin_id # ""
                        THEN Put(st.origin_seen, origin_id, <<player_uuid, event.event_time>>)
                        ELSE st.origin_seen
        \* R6
        pickup == ~has_transfer /\ is_world_pickup(event, origin_type)
        pkey == <<player_uuid, event.item_id, nbt_hash>>
        pwindow == EvictFront(Append(or_default(st.pickup_windows, pkey), event.event_time),
                              event.event_time, DUP_PICKUP_WINDOW_MS)
        pickup_windows1 == IF pickup THEN Put(st.pickup_windows, pkey, pwindow)
                           ELSE st.pickup_windows
        a6 == IF pickup /\ Len(pwindow) = DUP_PICKUP_THRESHOLD
              THEN <<build_anomaly(event, "MEDIUM", "R6", clock)>> ELSE <<>>
        \* R10
        strict == sw > 0 /\ sth > 0 /\ ~has_transfer /\ is_world_pickup(event, origin_type)
        skey == <<player_uuid, event.item_id>>
        swindow == EvictFrontRec(Append(or_default(st.strict_pickup_windows, skey),
                                        [time_ms |-> event.event_time, count |-> event.count]),
                                 event.event_time, sw)
        should_alert == strict /\ SumCounts(swindow) >= sth
        strict_windows1 == IF strict
                           THEN Put(st.strict_pickup_windows, skey,
                                    IF should_alert THEN <<>> ELSE swindow)
                           ELSE st.strict_pickup_windows
        a10 == IF should_alert THEN <<build_anomaly(event, "HIGH", "R10", clock)>> ELSE <<>>
        \* R7
        audit == origin_type = "inventory_audit" /\ ~has_transfer
        akey == <<player_uuid, event.item_id, nbt_hash>>
        sum_before == SumCounts(or_default(st.audit_windows, akey))
        awindow == EvictFrontRec(Append(or_default(st.audit_windows, akey),
                                        [time_ms |-> event.event_time, count |-> event.count]),
                                 event.event_time, AUDIT_WINDOW_MS)
        sum_after == SumCounts(awindow)
        audit_windows1 == IF audit THEN Put(st.audit_windows, akey, awindow)
                          ELSE st.audit_windows
        a7 == IF audit /\ sum_before < AUDIT_THRESHOLD /\ sum_after >= AUDIT_THRESHOLD
              THEN <<build_anomaly(event, "HIGH", "R7", clock)>> ELSE <<>>
        \* R4; a rule whose threshold is 0 ends the loop body (continue)
        has_rule == event.item_id \in DOMAIN rules
        threshold == IF has_rule THEN effective_threshold(rules[event.item_id]) ELSE 0
        skip_rest == has_rule /\ threshold = 0
        counted == has_rule /\ threshold # 0
        kkey == <<player_uuid, event.item_id>>
        kwindow == EvictFront(or_default(st.key_item_windows, kkey)
                                \o Repeat(event.event_time, count),
                              event.event_time, kw)
        key_windows1 == IF counted THEN Put(st.key_item_windows, kkey, kwindow)
                        ELSE st.key_item_windows
        a4 == IF counted /\ Len(kwindow) > threshold
              THEN <<build_anomaly(event, effective_risk_level(rules[event.item_id]), "R4", clock)>>
              ELSE <<>>
        \* R0
        a0 == IF has_transfer /\ ~skip_rest
              THEN <<build_anomaly(event, "LOW", "R0", clock)>> ELSE <<>>
    IN  [ st  |-> [ transfer_cache        |-> st.transfer_cache,
                    origin_seen           |-> origin_seen1,
                    key_item_windows      |-> key_windows1,
                    pickup_windows        |-> pickup_windows1,
                    audit_windows         |-> audit_windows1,
                    strict_pickup_windows |-> strict_windows1 ],
          out |-> a1 \o a2 \o a3 \o a6 \o a10 \o a7 \o a4 \o a0 ]

\* the body of `for event in events`
analyze_event(st, event, rules, tw, kw, sw, sth, clock) ==
    IF IsBlank(event.item_id) \/ event.item_id = "minecraft:air" \/ event.count <= 0
    THEN [st |-> st, out |-> <<>>]
    ELSE IF event.event_type \in {"INVENTORY_SNAPSHOT", "STORAGE_SNAPSHOT"}
    THEN [st |-> st, out |-> analyze_snapshot(event, rules, clock)]
    ELSE IF event.event_type = "TRANSFER"
    THEN [st |-> [st EXCEPT !.transfer_cache = record_transfer(@, event)], out |-> <<>>]
    ELSE IF event.event_type # "ACQUIRE"
    THEN [st |-> st, out |-> <<>>]
    ELSE analyze_acquire(st, event, rules, tw, kw, sw, sth, clock)

\* analyze_events pushing each event's anomalies to the front of the output
RECURSIVE analyze_events_front(_, _, _, _, _, _, _, _)
analyze_events_front(acc, events, rules, tw, kw, sw, sth, clock) ==
    IF events = <<>> THEN acc
    ELSE LET r == analyze_event(acc.st, Head(events), rules, tw, kw, sw, sth, clock)
         IN  analyze_events_front(
                 [ st        |-> r.st,
                   anomalies |-> r.out \o acc.anomalies,
                   trace     |-> Append(acc.trace, [ event |-> Head(events), pre |-> acc.st,
                                                     post |-> r.st, out |-> r.out ]) ],
                 Tail(events), rules, tw, kw, sw, sth, clock)

\* the loop: the detector state, the anomalies pushed so far, and the history of
\* what each event met (pre), left (post) and emitted (out)
RECURSIVE analyze_events(_, _, _, _, _, _, _, _)
analyze_events(acc, events, rules, tw, kw, sw, sth, clock) ==
    IF events = <<>> THEN acc
    ELSE LET r == analyze_event(acc.st, Head(events), rules, tw, kw, sw, sth, clock)
         IN  analyze_events(
                 [ st        |-> r.st,
                   anomalies |-> acc.anomalies \o r.out,
                   trace     |-> Append(acc.trace, [ event |-> Head(events), pre |-> acc.st,
                                                     post |-> r.st, out |-> r.out ]) ],
                 Tail(events), rules, tw, kw, sw, sth, clock)

analyze_batch(st, events, rules, tw, kw, sw, sth, clock) ==
    analyze_events([ st |-> cleanup(st, clock, tw, kw, sw), anomalies |-> <<>>, trace |-> <<>> ],
                   events, rules, tw, kw, sw, sth, clock)


(***************************************************************************)
(* The detector under batches of events                                    *)
(***************************************************************************)
\* the total number of events handed to the detector in one behaviour
MaxEvents == 2

Ev(type, player, item, count, time, oid, otype, storage, fp) ==
    [ event_type       |-> type,
      event_time       |-> time,
      player_uuid      |-> Some(player),
      item_id          |-> item,
      count            |-> count,
      nbt_hash         |-> None,
      origin_id        |-> oid,
      origin_type      |-> otype,
      storage_id       |-> storage,
      item_fingerprint |-> fp ]

\* ACQUIRE events come in four shapes of (origin_id, origin_type, storage_id, fingerprint)
Acquire(player, count, time, shape) ==
    CASE shape = 1 -> Ev("ACQUIRE", player, "mod:gem", count, time,
                         None, None, None, Some("mod:gem:"))
      [] shape = 2 -> Ev("ACQUIRE", player, "mod:gem", count, time,
                         Some(""), Some("hack"), Some("world"), None)
      [] shape = 3 -> Ev("ACQUIRE", player, "mod:gem", count, time,
                         Some("o1"), Some("world_pickup"), None, None)
      [] shape = 4 -> Ev("ACQUIRE", player, "mod:gem", count, time,
                         Some("o1"), Some("inventory_audit"), None, None)

Transfer(player, item, count, time) ==
    Ev("TRANSFER", player, item, count, time, None, None, None, Some("mod:gem:"))

\* an event time past the last representable datetime
FarMs == MaxUtcMs + 1

DetEvents ==
    {Acquire("A", c, t, 1) : c \in {1, 2}, t \in {0, 2000, 2001}}
    \cup {Acquire("A", 1, 0, s) : s \in {2, 3}}
    \cup {Acquire("A", 2, 2000, s) : s \in {2, 3}}
    \cup {Acquire("A", 16, 2000, 4), Acquire("A", 1, 700000, 3),
          Acquire("A", 1, FarMs, 2), Acquire("B", 1, 0, 3)}
    \cup {Transfer("A", "mod:gem", c, t) : c \in {1, 2}, t \in {0, 2001}}
    \cup {Transfer("A", "mod:gem", 16, 0), Transfer("A", "minecraft:air", 1, 0)}
    \cup {Ev(ty, "A", "mod:gem", 3, 0, None, None, None, None) :
              ty \in {"INVENTORY_SNAPSHOT", "STORAGE_SNAPSHOT", "RELEASE"}}
    \cup {Ev("ACQUIRE", "A", "mod:gem", 0, 0, None, None, None, None)}

Rule(threshold, max_per_10m, risk_level, weight) ==
    [ item_id |-> "mod:gem", threshold |-> threshold, max_per_10m |-> max_per_10m,
      risk_level |-> risk_level, weight |-> weight ]

\* the rule files the service may have been started with (load_key_items does not
\* validate, so a rule without threshold, of effective threshold 0, can be loaded)
RuleSets ==
    { EmptyMap,
      [i \in {"mod:gem"} |-> Rule(None, None, None, None)],
      [i \in {"mod:gem"} |-> Rule(Some(2), None, Some("high"), None)],
      [i \in {"mod:gem"} |-> Rule(None, Some(1), None, Some(8))] }

\* readings of the wall clock
WallClock == {2000, 5000}

EmptyAnalyzer ==
    [ transfer_cache |-> <<>>, origin_seen |-> EmptyMap, key_item_windows |-> EmptyMap,
      pickup_windows |-> EmptyMap, audit_windows |-> EmptyMap,
      strict_pickup_windows |-> EmptyMap ]

DetInit ==
    /\ analyzer = EmptyAnalyzer
    /\ key_rules \in RuleSets
    /\ strict_enabled \in BOOLEAN
    /\ now = 0
    /\ anomalies = <<>>
    /\ trace = <<>>
    /\ processed = 0
    /\ recorded = {}
    /\ log = <<>>

\* the events of a batch history that record_transfer stored
RecordedTransfers(tr) ==
    { tr[i].event : i \in { j \in DOMAIN tr :
          Len(tr[j].post.transfer_cache) > Len(tr[j].pre.transfer_cache) } }

\* process_ingest_events, from the rules snapshot to the release of the detector lock
AnalyzeBatch ==
    \E clock \in {c \in WallClock : c >= now}, n \in 0 .. (MaxEvents - processed) :
      \E events \in [1 .. n -> DetEvents] :
        LET r == analyze_batch(analyzer, events, key_rules, transfer_window_ms,
                               key_item_window_ms, strict_pickup_window_ms,
                               strict_pickup_threshold, clock)
        IN  /\ analyzer' = r.st
            /\ anomalies' = r.anomalies
            /\ trace' = r.trace
            /\ now' = clock
            /\ processed' = processed + n
            /\ recorded' = recorded \cup RecordedTransfers(trace)
            /\ UNCHANGED <<key_rules, strict_enabled, log, outside_det>>

(***************************************************************************)
(* The detector under batches that reach the bounds of its windows         *)
(***************************************************************************)
\* the total number of events handed to the detector in one such behaviour
MaxWindowEvents == 3

\* a world pickup of origin "o2"
OtherOrigin(player, time) ==
    Ev("ACQUIRE", player, "mod:gem", 1, time, Some("o2"), Some("world_pickup"), None, None)

\* world pickups of origin "o1" at the bounds of the R3, R5, R6 and R8 windows, an
\* inventory audit of the same origin, a pickup of another origin and a TRANSFER
WindowEvents ==
    {Acquire("A", 1, t, 3) : t \in {0, 9999, 10000, 15000, 15001, 29999, 30000,
                                    R8_WINDOW_MS - 1, R8_WINDOW_MS}}
    \cup {Acquire("B", 1, 0, 3), Acquire("A", 1, 9999, 4), OtherOrigin("A", 0),
          Transfer("A", "mod:gem", 1, 9999)}

\* readings of the wall clock, the later one more than DUP_PICKUP_WINDOW_MS after
\* the earliest event time
WindowClock == {2000, 16000}

\* process_ingest_events, from the rules snapshot to the release of the detector
\* lock; the log keeps every event with the states it met and left, what it
\* emitted, the clock of its batch and the length of the log when its batch began
AnalyzeWindows ==
    \E clock \in {c \in WindowClock : c >= now}, n \in 0 .. (MaxWindowEvents - processed) :
      \E events \in [1 .. n -> WindowEvents] :
        LET r == analyze_batch(analyzer, events, key_rules, transfer_window_ms,
                               key_item_window_ms, strict_pickup_window_ms,
                               strict_pickup_threshold, clock)
        IN  /\ analyzer' = r.st
            /\ anomalies' = r.anomalies
            /\ trace' = r.trace
            /\ now' = clock
            /\ processed' = processed + n
            /\ recorded' = recorded \cup RecordedTransfers(trace)
            /\ log' = log \o [k \in 1 .. n |->
                              [event |-> r.trace[k].event, pre |-> r.trace[k].pre,
                               post |-> r.trace[k].post, out |-> r.trace[k].out,
                               clock |-> clock, batch |-> Len(log)]]
            /\ UNCHANGED <<key_rules, strict_enabled, outside_det>>

\* the total number of events of one behaviour under SpecSums
MaxSumEvents == 3

\* inventory audits and world pickups of player A whose counts add up to the R7 and
\* R10 thresholds inside and just outside the 30 s windows, and transfers that
\* match two of them
SumEvents ==
    {Acquire("A", 8, t, 4) : t \in {0, 30000}}
    \cup {Acquire("A", 16, t, 4) : t \in {0, 30001}}
    \cup {Acquire("A", 1, t, 3) : t \in {0, 30000, 30001}}
    \cup {Acquire("A", 2, 30001, 3), Acquire("A", 3, 0, 3)}
    \cup {Transfer("A", "mod:gem", 16, 0), Transfer("A", "mod:gem", 3, 0)}

\* readings of the wall clock, the later one more than key_item_window_ms after
\* every event time
SumClock == {2000, 700000}

\* process_ingest_events as in AnalyzeWindows, over SumEvents and SumClock
AnalyzeSums ==
    \E clock \in {c \in SumClock : c >= now}, n \in 0 .. (MaxSumEvents - processed) :
      \E events \in [1 .. n -> SumEvents] :
        LET r == analyze_batch(analyzer, events, key_rules, transfer_window_ms,
                               key_item_window_ms, strict_pickup_window_ms,
                               strict_pickup_threshold, clock)
        IN  /\ analyzer' = r.st
            /\ anomalies' = r.anomalies
            /\ trace' = r.trace
            /\ now' = clock
            /\ processed' = processed + n
            /\ recorded' = recorded \cup RecordedTransfers(trace)
            /\ log' = log \o [k \in 1 .. n |->
                              [event |-> r.trace[k].event, pre |-> r.trace[k].pre,
                               post |-> r.trace[k].post, out |-> r.trace[k].out,
                               clock |-> clock, batch |-> Len(log)]]
            /\ UNCHANGED <<key_rules, strict_enabled, outside_det>>

\* the total number of events of one behaviour under SpecSnapshots
MaxSnapshotEvents == 3

\* inventory and storage snapshots of mod:gem below, at and above the thresholds of
\* RuleSets, and an ACQUIRE and a TRANSFER that fill the detector's structures
SnapshotEvents ==
    {Ev(ty, "A", "mod:gem", c, 0, None, None, None, None) :
         ty \in {"INVENTORY_SNAPSHOT", "STORAGE_SNAPSHOT"}, c \in {1, 2, 3}}
    \cup {Acquire("A", 1, 0, 3), Transfer("A", "mod:gem", 2, 0)}

\* process_ingest_events as in AnalyzeBatch, over SnapshotEvents
AnalyzeSnapshots ==
    \E clock \in {c \in WallClock : c >= now}, n \in 0 .. (MaxSnapshotEvents - processed) :
      \E events \in [1 .. n -> SnapshotEvents] :
        LET r == analyze_batch(analyzer, events, key_rules, transfer_window_ms,
                               key_item_window_ms, strict_pickup_window_ms,
                               strict_pickup_threshold, clock)
        IN  /\ analyzer' = r.st
            /\ anomalies' = r.anomalies
            /\ trace' = r.trace
            /\ now' = clock
            /\ processed' = processed + n
            /\ recorded' = recorded \cup RecordedTransfers(trace)
            /\ UNCHANGED <<key_rules, strict_enabled, log, outside_det>>

(***************************************************************************)
(* The mod-config hub: put_mod_config and the stream hub                   *)
(***************************************************************************)
\* the number of put_mod_config calls in one behaviour, numbered in the order
\* they start
MaxPuts == 3

Puts == 1 .. MaxPuts
\* the stream subscribers
Subs == {"w1"}
Servers == {"s1", "s2"}
JsonNull == "null"
Configs == {"{k:1}", "{k:2}"}

\* hex(sha256(serde_json::to_vec(config))), a value that determines the config
checksum_sha256(config) == <<"sha256", config>>

Envelope(server_id, revision, config) ==
    [ server_id       |-> server_id,
      revision        |-> revision,
      checksum_sha256 |-> checksum_sha256(config),
      config          |-> config ]

\* revision = previous.as_ref().map(|item| item.revision + 1).unwrap_or(1)
next_revision(previous) == IF previous = None THEN 1 ELSE previous[1].revision + 1

\* cache.get(&server_id).cloned()
cache_get(cache, server_id) ==
    IF server_id \in DOMAIN cache THEN Some(cache[server_id]) ELSE None

IdlePut == [pc |-> "idle", server_id |-> "", error |-> "", envelope |-> None]
\* a stream_mod_config call: loaded is what load_mod_config returned, initial the
\* envelope sent to the socket before the first recv(); since is history, the
\* number of envelopes published before subscribe()
IdleSub == [pc |-> "idle", server_id |-> "", loaded |-> None, initial |-> None, since |-> 0]

McInit ==
    /\ mod_configs = EmptyMap
    /\ disk \in {EmptyMap, [s \in {"s1"} |-> Envelope("s1", 4, "{k:1}")]}
    /\ disk0 = disk
    /\ put = [p \in Puts |-> IdlePut]
    /\ returns = <<>>
    /\ sub = [s \in Subs |-> IdleSub]
    /\ inbox = [s \in Subs |-> <<>>]
    /\ received = [s \in Subs |-> <<>>]

\* put_mod_config up to its first suspension after the cache read: the null check,
\* the read of the cache and, when the cache holds the server, the new envelope
PutBegin(p) ==
    /\ put[p].pc = "idle"
    /\ \A q \in 1 .. (p - 1) : put[q].pc # "idle"
    /\ \E server_id \in Servers, config \in Configs \cup {JsonNull} :
         LET previous == cache_get(mod_configs, server_id)
         IN  put' = [put EXCEPT ![p] =
                 IF config = JsonNull
                 THEN [pc |-> "failed", server_id |-> server_id, error |-> "BadRequest",
                       envelope |-> None]
                 ELSE IF previous # None
                 THEN [pc |-> "save", server_id |-> server_id, error |-> "",
                       envelope |-> Some(Envelope(server_id, next_revision(previous), config))]
                 ELSE [pc |-> "load", server_id |-> server_id, error |-> "",
                       envelope |-> Some(Envelope(server_id, 0, config))]]
    /\ UNCHANGED <<outside_mc, mod_configs, disk, disk0, returns, sub, inbox, received>>

\* config_repo.load_mod_config when the cache had nothing for the server
PutLoad(p) ==
    /\ put[p].pc = "load"
    /\ LET server_id == put[p].server_id
           previous == cache_get(disk, server_id)
       IN  put' = [put EXCEPT ![p].pc = "save",
                              ![p].envelope = Some(Envelope(server_id, next_revision(previous),
                                                            @[1].config))]
    /\ UNCHANGED <<outside_mc, mod_configs, disk, disk0, returns, sub, inbox, received>>

\* load_mod_config fails (the file cannot be read or parsed): Internal
PutLoadFails(p) ==
    /\ put[p].pc = "load"
    /\ put[p].server_id \in DOMAIN disk
    /\ put' = [put EXCEPT ![p].pc = "failed", ![p].error = "Internal", ![p].envelope = None]
    /\ UNCHANGED <<outside_mc, mod_configs, disk, disk0, returns, sub, inbox, received>>

\* save_mod_config fails once the cache holds the new envelope
PutSaveFailsCached(p) ==
    /\ put[p].pc = "save"
    /\ mod_configs' = Put(mod_configs, put[p].server_id, put[p].envelope[1])
    /\ put' = [put EXCEPT ![p].pc = "failed", ![p].error = "Internal", ![p].envelope = None]
    /\ UNCHANGED <<outside_mc, disk, disk0, returns, sub, inbox, received>>

\* config_repo.save_mod_config writes the envelope's file
PutSave(p) ==
    /\ put[p].pc = "save"
    /\ disk' = Put(disk, put[p].server_id, put[p].envelope[1])
    /\ put' = [put EXCEPT ![p].pc = "insert"]
    /\ UNCHANGED <<outside_mc, mod_configs, disk0, returns, sub, inbox, received>>

\* save_mod_config fails: Internal, nothing written
PutSaveFails(p) ==
    /\ put[p].pc = "save"
    /\ put' = [put EXCEPT ![p].pc = "failed", ![p].error = "Internal", ![p].envelope = None]
    /\ UNCHANGED <<outside_mc, mod_configs, disk, disk0, returns, sub, inbox, received>>

\* cache.insert(server_id, envelope) under the write lock
PutInsert(p) ==
    /\ put[p].pc = "insert"
    /\ mod_configs' = Put(mod_configs, put[p].server_id, put[p].envelope[1])
    /\ put' = [put EXCEPT ![p].pc = "publish"]
    /\ UNCHANGED <<outside_mc, disk, disk0, returns, sub, inbox, received>>

\* a subscriber holds a receiver from subscribe() on, until its call fails
HasReceiver(s, server_id) ==
    sub[s].server_id = server_id /\ sub[s].pc \in {"get", "load", "insert", "stream"}

\* publish putting the envelope in front of the ones not yet received
publish_prepend(boxes, envelope) ==
    [s \in Subs |-> IF HasReceiver(s, envelope.server_id)
                    THEN <<envelope>> \o boxes[s] ELSE boxes[s]]

\* ModConfigStreamHub::publish: tx.send hands the envelope to every receiver of the
\* server's channel
publish(boxes, envelope) ==
    [s \in Subs |-> IF HasReceiver(s, envelope.server_id)
                    THEN Append(boxes[s], envelope) ELSE boxes[s]]

\* the broadcast, and the return of Ok(envelope)
PutPublish(p) ==
    /\ put[p].pc = "publish"
    /\ inbox' = publish(inbox, put[p].envelope[1])
    /\ returns' = Append(returns, put[p].envelope[1])
    /\ put' = [put EXCEPT ![p].pc = "done"]
    /\ UNCHANGED <<outside_mc, mod_configs, disk, disk0, sub, received>>

\* stream_mod_config up to ModConfigStreamHub::subscribe
Subscribe(s) ==
    /\ sub[s].pc = "idle"
    /\ \E server_id \in Servers :
          sub' = [sub EXCEPT ![s].pc = "get", ![s].server_id = server_id,
                             ![s].since = Len(returns)]
    /\ UNCHANGED <<outside_mc, mod_configs, disk, disk0, put, returns, inbox, received>>

\* get_mod_config reads the cache: a hit is the initial envelope
GetCached(s) ==
    /\ sub[s].pc = "get"
    /\ LET cached == cache_get(mod_configs, sub[s].server_id)
       IN  sub' = [sub EXCEPT ![s].pc = IF cached # None THEN "stream" ELSE "load",
                              ![s].initial = cached]
    /\ UNCHANGED <<outside_mc, mod_configs, disk, disk0, put, returns, inbox, received>>

\* get_mod_config loads the file after a cache miss
GetLoad(s) ==
    /\ sub[s].pc = "load"
    /\ LET loaded == cache_get(disk, sub[s].server_id)
       IN  sub' = [sub EXCEPT ![s].pc = IF loaded # None THEN "insert" ELSE "stream",
                              ![s].loaded = loaded]
    /\ UNCHANGED <<outside_mc, mod_configs, disk, disk0, put, returns, inbox, received>>

\* load_mod_config fails: stream_mod_config returns the error, the receiver is dropped
GetLoadFails(s) ==
    /\ sub[s].pc = "load"
    /\ sub[s].server_id \in DOMAIN disk
    /\ sub' = [sub EXCEPT ![s].pc = "failed"]
    /\ inbox' = [inbox EXCEPT ![s] = <<>>]
    /\ UNCHANGED <<outside_mc, mod_configs, disk, disk0, put, returns, received>>

\* get_mod_config inserts what it loaded into the cache and returns it
GetInsert(s) ==
    /\ sub[s].pc = "insert"
    /\ mod_configs' = Put(mod_configs, sub[s].server_id, sub[s].loaded[1])
    /\ sub' = [sub EXCEPT ![s].pc = "stream", ![s].initial = sub[s].loaded]
    /\ UNCHANGED <<outside_mc, disk, disk0, put, returns, inbox, received>>

\* handle_mod_config_stream: receiver.recv() returns the oldest envelope not yet
\* received, and it is sent to the socket
Recv(s) ==
    /\ sub[s].pc = "stream"
    /\ inbox[s] # <<>>
    /\ received' = [received EXCEPT ![s] = Append(@, Head(inbox[s]))]
    /\ inbox' = [inbox EXCEPT ![s] = Tail(@)]
    /\ UNCHANGED <<outside_mc, mod_configs, disk, disk0, put, returns, sub>>

\* no put_mod_config call is under way
NoPutRunning == \A q \in Puts : put[q].pc \in {"idle", "done", "failed"}

PutStep(p) ==
    \/ PutLoad(p)
    \/ PutLoadFails(p)
    \/ PutSave(p)
    \/ PutSaveFails(p)
    \/ PutInsert(p)
    \/ PutPublish(p)

StreamStep(s) ==
    \/ Subscribe(s)
    \/ GetCached(s)
    \/ GetLoad(s)
    \/ GetLoadFails(s)
    \/ GetInsert(s)
    \/ Recv(s)

McNext ==
    \/ \E p \in Puts : PutBegin(p)
    \/ \E p \in Puts : PutStep(p)
    \/ \E s \in Subs : StreamStep(s)

\* the same with each put completing before the next starts
McSeqNext ==
    \/ \E p \in Puts : NoPutRunning /\ PutBegin(p)
    \/ \E p \in Puts : PutStep(p)
    \/ \E s \in Subs : StreamStep(s)

(***************************************************************************)
(* pull_mod_config (mod_config_queries.rs)                                 *)
(***************************************************************************)
\* the number of pull_mod_config calls in one behaviour, numbered in the order
\* they start
MaxPulls == 2
Pulls == 1 .. MaxPulls
\* the after_revision query parameter
AfterRevisions == {None, Some(1), Some(4)}

\* Option::unwrap_or
unwrap_or(option, default) == IF option = None THEN default ELSE option[1]

\* the same with the envelope of revision after_revision returned again
pull_result_inclusive(envelope, after_revision) ==
    IF envelope = None THEN None
    ELSE IF envelope[1].revision < unwrap_or(after_revision, 0) THEN None
    ELSE envelope

\* pull_mod_config once get_mod_config returned envelope
pull_result(envelope, after_revision) ==
    IF envelope = None THEN None
    ELSE IF envelope[1].revision <= unwrap_or(after_revision, 0) THEN None
    ELSE envelope

\* the state of the hub for a server: the cached envelope, and the persisted one
\* until the first read cached it
current_envelope(cache, persisted, server_id) ==
    IF cache_get(cache, server_id) # None
    THEN cache_get(cache, server_id)
    ELSE cache_get(persisted, server_id)

\* a pull_mod_config call: envelope is what get_mod_config returned, result what
\* the call returned
IdlePull ==
    [pc |-> "idle", server_id |-> "", after_revision |-> None, envelope |-> None,
     result |-> None, error |-> ""]

\* pull_mod_config up to the read of the cache in get_mod_config: a hit is
\* compared with after_revision and the call returns
PullBegin(c) ==
    /\ pull[c].pc = "idle"
    /\ \A b \in 1 .. (c - 1) : pull[b].pc # "idle"
    /\ \E server_id \in Servers, after_revision \in AfterRevisions :
         LET cached == cache_get(mod_configs, server_id)
         IN  pull' = [pull EXCEPT ![c] =
                 [pc |-> IF cached # None THEN "done" ELSE "load",
                  server_id |-> server_id, after_revision |-> after_revision,
                  envelope |-> cached,
                  result |-> pull_result(cached, after_revision), error |-> ""]]
    /\ UNCHANGED <<mc_vars, det_vars, al_vars, in_vars, beside_pull>>

\* get_mod_config loads the file after a cache miss; no file, the call returns empty
PullLoad(c) ==
    /\ pull[c].pc = "load"
    /\ LET loaded == cache_get(disk, pull[c].server_id)
       IN  pull' = [pull EXCEPT ![c].pc = IF loaded # None THEN "insert" ELSE "done",
                                ![c].envelope = loaded]
    /\ UNCHANGED <<mc_vars, det_vars, al_vars, in_vars, beside_pull>>

\* load_mod_config fails and the call returns the error
PullLoadFails(c) ==
    /\ pull[c].pc = "load"
    /\ pull[c].server_id \in DOMAIN disk
    /\ pull' = [pull EXCEPT ![c].pc = "failed", ![c].error = "Internal"]
    /\ UNCHANGED <<mc_vars, det_vars, al_vars, in_vars, beside_pull>>

\* get_mod_config inserts what it loaded into the cache and returns it;
\* pull_mod_config compares it with after_revision
PullInsert(c) ==
    /\ pull[c].pc = "insert"
    /\ mod_configs' = Put(mod_configs, pull[c].server_id, pull[c].envelope[1])
    /\ pull' = [pull EXCEPT ![c].pc = "done",
                            ![c].result = pull_result(pull[c].envelope,
                                                      pull[c].after_revision)]
    /\ UNCHANGED <<disk, disk0, put, returns, sub, inbox, received,
                   det_vars, al_vars, in_vars, beside_pull>>

PullStep(c) ==
    \/ PullBegin(c)
    \/ PullLoad(c)
    \/ PullLoadFails(c)
    \/ PullInsert(c)

\* pulls next to puts that complete one after the other
PullNext ==
    \/ \E p \in Puts : NoPutRunning /\ PutBegin(p)
    \/ \E p \in Puts : PutStep(p)
    \/ \E c \in Pulls : PullStep(c)

(***************************************************************************)
(* The alert delivery service (alert_service.rs)                           *)
(***************************************************************************)
DELIVERY_HISTORY_LIMIT == 200
ALERT_RETRY_ATTEMPTS == 3
ALERT_RETRY_BASE_MS == 400

MaxDeliveries == 2
Deliveries == 1 .. MaxDeliveries

Max(a, b) == IF a >= b THEN a ELSE b

\* the bytes of a rule id: String, and so BTreeSet<String>, orders by them
Bytes(rule_id) ==
    CASE rule_id = "R0" -> <<82, 48>>
      [] rule_id = "R4" -> <<82, 52>>
      [] rule_id = "R10" -> <<82, 49, 48>>
      [] rule_id = "R12" -> <<82, 49, 50>>

RECURSIVE bytes_lt(_, _)
bytes_lt(x, y) ==
    IF y = <<>> THEN FALSE
    ELSE IF x = <<>> THEN TRUE
    ELSE IF x[1] # y[1] THEN x[1] < y[1]
    ELSE bytes_lt(Tail(x), Tail(y))

\* <str as Ord>::lt
str_lt(a, b) == bytes_lt(Bytes(a), Bytes(b))

\* BTreeSet::into_iter: the members in ascending order
RECURSIVE btree_into_iter(_)
btree_into_iter(set) ==
    IF set = {} THEN <<>>
    ELSE LET first == CHOOSE x \in set : \A y \in set \ {x} : str_lt(x, y)
         IN  <<first>> \o btree_into_iter(set \ {first})

\* should_emit_alert letting every rule through
should_emit_alert_any(rule_id) == TRUE

should_emit_alert(rule_id) == rule_id \in {"R4", "R10", "R12"}

\* Ok(url) is Some(url), the Err is None
resolve_alert_url(config) ==
    IF config.alert_webhook_url # None /\ ~IsBlank(config.alert_webhook_url[1])
    THEN config.alert_webhook_url
    ELSE IF config.webhook_url # None /\ ~IsBlank(config.webhook_url[1])
    THEN config.webhook_url
    ELSE None

\* url.starts_with("ws://") || url.starts_with("wss://"), on the urls of the model
is_ws_url(url) == url \in {"ws://bot", "wss://bot"}

resolve_alert_mode(config) ==
    LET url == resolve_alert_url(config)
    IN  IF url = None THEN "unset" ELSE IF is_ws_url(url[1]) THEN "ws" ELSE "http"

\* what one send_alerts call can return: "ok" for Ok(()), else the text of the Err
Ok == "ok"
TransportErrors == {"timeout", "status 500"}
send_alerts(config) ==
    LET url == resolve_alert_url(config)
    IN  IF url = None THEN {"alert webhook url not configured"}
        ELSE IF is_ws_url(url[1]) /\ config.alert_group_id = None
        THEN {"alert_group_id not configured"}
        ELSE {Ok} \cup TransportErrors

\* one turn of the loop of send_alerts_with_retry, after send_alerts returned
retry_step_unrecorded(current, attempts, result) ==
    IF result = Ok THEN [pc |-> "record", error |-> None]
    ELSE IF current >= attempts THEN [pc |-> "done", error |-> Some(result)]
    ELSE [pc |-> "sleep", error |-> None]

retry_step_once_more(current, attempts, result) ==
    IF result = Ok THEN [pc |-> "record", error |-> None]
    ELSE IF current > attempts THEN [pc |-> "record", error |-> Some(result)]
    ELSE [pc |-> "sleep", error |-> None]

retry_step(current, attempts, result) ==
    IF result = Ok THEN [pc |-> "record", error |-> None]
    ELSE IF current >= attempts THEN [pc |-> "record", error |-> Some(result)]
    ELSE [pc |-> "sleep", error |-> None]

\* ALERT_RETRY_BASE_MS.saturating_mul(1u64 << (current - 1))
backoff_ms(current) == ALERT_RETRY_BASE_MS * (2 ^ (current - 1))

rule_ids_of(alerts) == btree_into_iter({alerts[i].rule_id : i \in DOMAIN alerts})

AlertDeliveryRecord(config, alerts, attempts, error, clock) ==
    [timestamp_ms |-> clock,
     status |-> IF error = None THEN "success" ELSE "failed",
     mode |-> resolve_alert_mode(config),
     attempts |-> attempts,
     alert_count |-> Len(alerts),
     rule_ids |-> rule_ids_of(alerts),
     error |-> error]

\* push_delivery evicting at the back: the record just pushed is the one dropped
push_delivery_back(history, limit, record) ==
    LET pushed == Append(history, record)
    IN  IF Len(pushed) > Max(limit, 1) THEN SubSeq(pushed, 1, Max(limit, 1)) ELSE pushed

push_delivery(history, limit, record) ==
    LET pushed == Append(history, record)
        excess == Len(pushed) - Max(limit, 1)
    IN  IF excess > 0 THEN SubSeq(pushed, excess + 1, Len(pushed)) ELSE pushed

with_history_limit(limit) == Max(limit, 1)

Min(a, b) == IF a <= b THEN a ELSE b

\* deliveries.iter().rev().take(limit.max(1).min(history_limit))
list_alert_deliveries(history, limit_of_service, limit) ==
    LET n == Min(Min(Max(limit, 1), limit_of_service), Len(history))
    IN  [i \in 1 .. n |-> history[Len(history) - i + 1]]

\* deliveries.back().cloned()
last_alert_delivery(history) ==
    IF history = <<>> THEN None ELSE Some(history[Len(history)])


\* the inputs of spawn_alerts
AlertConfig(alert_webhook_url, webhook_url, alert_group_id) ==
    [alert_webhook_url |-> alert_webhook_url, webhook_url |-> webhook_url,
     alert_group_id |-> alert_group_id]
HttpConfig == AlertConfig(None, Some("http://hook"), None)
WsConfig == AlertConfig(Some("ws://bot"), Some("http://hook"), Some(7))
WsNoGroupConfig == AlertConfig(None, Some("wss://bot"), None)
UnsetConfig == AlertConfig(None, None, None)
AlertRow(rule_id) == [rule_id |-> rule_id]
Rows(ids) == [i \in DOMAIN ids |-> AlertRow(ids[i])]
\* the calls of spawn_alerts the model makes: a configuration and a batch each
SpawnInputs ==
    {<<HttpConfig, Rows(<<"R12", "R4", "R0", "R10", "R4">>)>>,
     <<WsConfig, Rows(<<"R0", "R10">>)>>,
     <<WsNoGroupConfig, Rows(<<"R4">>)>>,
     <<UnsetConfig, Rows(<<"R12", "R12">>)>>,
     <<HttpConfig, Rows(<<"R0">>)>>,
     <<WsConfig, Rows(<<>>)>>}
HistoryLimits == {0, DELIVERY_HISTORY_LIMIT}

\* a task: pc, config, alerts, current and error are the locals of the spawned
\* future; batch (the anomalies spawn_alerts was called with), outcomes, slept,
\* written and record are history
IdleTask ==
    [pc |-> "unspawned", config |-> UnsetConfig, alerts |-> <<>>,
     current |-> 0, error |-> None, batch |-> <<>>,
     outcomes |-> <<>>, slept |-> <<>>, written |-> 0, record |-> None]

AlInit ==
    /\ deliveries = <<>>
    /\ history_limit \in {with_history_limit(limit) : limit \in HistoryLimits}
    /\ tasks = [d \in Deliveries |-> IdleTask]
    /\ wall_ms = 0

\* spawn_alerts up to tokio::spawn: what becomes of the task slot
spawn_alerts(task, config, batch) ==
    LET alerts == SelectSeq(batch, LAMBDA row : should_emit_alert(row.rule_id))
    IN  IF alerts = <<>>
        THEN [task EXCEPT !.pc = "returned", !.config = config, !.batch = batch]
        ELSE [task EXCEPT !.pc = "send", !.config = config, !.alerts = alerts,
                          !.current = 1, !.batch = batch]

\* a call of spawn_alerts; calls are numbered in the order they are made
SpawnAlerts(d) ==
    /\ tasks[d].pc = "unspawned"
    /\ \A e \in 1 .. (d - 1) : tasks[e].pc # "unspawned"
    /\ \E input \in SpawnInputs :
          tasks' = [tasks EXCEPT ![d] = spawn_alerts(@, input[1], input[2])]
    /\ UNCHANGED <<outside_al, deliveries, history_limit, wall_ms>>

\* send_alerts(config, alerts).await and the match on what it returned
SendAttempt(d) ==
    /\ tasks[d].pc = "send"
    /\ \E result \in send_alerts(tasks[d].config) :
          LET step == retry_step(tasks[d].current, Max(ALERT_RETRY_ATTEMPTS, 1), result)
          IN  tasks' = [tasks EXCEPT ![d].pc = step.pc, ![d].error = step.error,
                                     ![d].outcomes = Append(@, result)]
    /\ UNCHANGED <<outside_al, deliveries, history_limit, wall_ms>>

\* sleep(backoff_ms).await; current += 1
Backoff(d) ==
    /\ tasks[d].pc = "sleep"
    /\ tasks' = [tasks EXCEPT ![d].pc = "send", ![d].current = @ + 1,
                              ![d].slept = Append(@, backoff_ms(tasks[d].current))]
    /\ UNCHANGED <<outside_al, deliveries, history_limit, wall_ms>>

\* the record is built and push_delivery appends it
RecordDelivery(d) ==
    /\ tasks[d].pc = "record"
    /\ LET record == AlertDeliveryRecord(tasks[d].config, tasks[d].alerts,
                                         tasks[d].current, tasks[d].error, wall_ms)
       IN  /\ deliveries' = push_delivery(deliveries, history_limit, record)
           /\ tasks' = [tasks EXCEPT ![d].pc = "done", ![d].written = @ + 1,
                                     ![d].record = Some(record)]
    /\ wall_ms' = wall_ms + 1
    /\ UNCHANGED <<outside_al, history_limit>>

\* one step of the spawned future, from one await to the next
TaskStep(d) ==
    \/ SendAttempt(d)
    \/ Backoff(d)
    \/ RecordDelivery(d)

AlNext ==
    \E d \in Deliveries :
        \/ SpawnAlerts(d)
        \/ TaskStep(d)

\* the runtime keeps polling every spawned task that can make a step, and every
\* send attempt returns
AlFairness == \A d \in Deliveries : WF_vars(TaskStep(d))

(***************************************************************************)
(* The ingest pipeline: ingest_items, process_ingest_events and Metrics    *)
(***************************************************************************)
\* the number of ingest requests in one behaviour, numbered in the order they
\* arrive; request i hands its anomalies to the delivery task of slot i
MaxRequests == MaxDeliveries
Requests == 1 .. MaxRequests

\* the filter of ingest_items: the events that survive
valid_event_any(event) == TRUE
valid_event(event) ==
    ~(IsBlank(event.item_id) \/ event.item_id = "minecraft:air" \/ event.count <= 0)

\* Mutex::lock resolves only while no guard is alive
lock_free_always(holder) == TRUE
lock_free(holder) == holder = 0

\* Metrics: the four AtomicU64 counters and their fetch_add updates
ZeroMetrics == [ingest_requests |-> 0, ingest_events |-> 0, ingest_errors |-> 0, anomalies |-> 0]
record_ingest_requests_only(m, event_count) == [m EXCEPT !.ingest_requests = @ + 1]
record_ingest(m, event_count) ==
    [m EXCEPT !.ingest_requests = @ + 1, !.ingest_events = @ + event_count]
record_ingest_error_as_request(m) ==
    [m EXCEPT !.ingest_errors = @ + 1, !.ingest_requests = @ + 1]
record_ingest_error(m) == [m EXCEPT !.ingest_errors = @ + 1]
record_anomalies_uncounted(m, count) == m
record_anomalies(m, count) == [m EXCEPT !.anomalies = @ + count]

\* what insert_events / insert_anomalies return
RepoResults == {Ok, "db error"}
\* where process_ingest_events continues after insert_anomalies returned
after_insert_anomalies_abort(result) == IF result = Ok THEN "record_anomalies" ELSE "failed"
after_insert_anomalies(result) == "record_anomalies"

\* the configuration process_ingest_events hands to spawn_alerts
IngestConfig == HttpConfig

\* an ACQUIRE picked up from the world that carries neither origin_id nor origin_type
WorldAcquire(player, count, time) ==
    Ev("ACQUIRE", player, "mod:gem", count, time, None, None, Some("world"), None)

\* the request bodies, as parse_events returns them
IngestBodies ==
    { <<>>,
      <<Transfer("A", "minecraft:air", 1, 0),
        Ev("ACQUIRE", "A", "mod:gem", 0, 0, None, None, None, None)>>,
      <<Ev("ACQUIRE", "A", " ", 1, 0, None, None, None, None)>>,
      <<Acquire("A", 1, 0, 1)>>,
      <<WorldAcquire("A", 1, 0)>>,
      <<Ev("STORAGE_SNAPSHOT", "A", "mod:gem", 3, 0, None, None, None, None)>>,
      <<Transfer("A", "minecraft:air", 1, 0), Acquire("A", 1, 2000, 1)>>,
      <<Transfer("A", "mod:gem", 1, 0), Acquire("A", 1, 0, 1)>> }
IngestRuleSets ==
    { EmptyMap, [i \in {"mod:gem"} |-> Rule(Some(2), None, Some("high"), None)] }

\* a request: pc, events and anomalies are the position and the locals of
\* ingest_items / process_ingest_events; body, response, persisted, analyzed,
\* trace (what each event met in the detector) and inserted are history
IdleRequest ==
    [pc |-> "idle", body |-> <<>>, events |-> <<>>, anomalies |-> <<>>, response |-> None,
     persisted |-> FALSE, analyzed |-> FALSE, trace |-> <<>>, inserted |-> None]

InInit ==
    /\ analyzer = EmptyAnalyzer
    /\ key_rules \in IngestRuleSets
    /\ strict_enabled = FALSE
    /\ now = 0
    /\ anomalies = <<>>
    /\ trace = <<>>
    /\ processed = 0
    /\ recorded = {}
    /\ log = <<>>
    /\ deliveries = <<>>
    /\ history_limit = DELIVERY_HISTORY_LIMIT
    /\ tasks = [d \in Deliveries |-> IdleTask]
    /\ wall_ms = 0
    /\ ingest = [i \in Requests |-> IdleRequest]
    /\ analyzer_lock = 0
    /\ metrics = ZeroMetrics
    /\ event_repo = <<>>
    /\ anomaly_repo = <<>>

\* ingest_items rejects the request: authorize fails or parse_events fails
IngestRejected(i) ==
    /\ ingest[i].pc = "idle"
    /\ \A j \in 1 .. (i - 1) : ingest[j].pc # "idle"
    /\ \E response \in {"Unauthorized", "BadRequest"} :
          ingest' = [ingest EXCEPT ![i].pc = "done", ![i].response = Some(response)]
    /\ UNCHANGED <<ops_vars, det_vars, mc_vars, al_vars, analyzer_lock, metrics, event_repo, anomaly_repo>>

\* ingest_items up to the first await of process_ingest_events
IngestItems(i) ==
    /\ ingest[i].pc = "idle"
    /\ \A j \in 1 .. (i - 1) : ingest[j].pc # "idle"
    /\ \E body \in IngestBodies :
          LET events == SelectSeq(body, valid_event)
          IN  ingest' = [ingest EXCEPT ![i] =
                  IF events = <<>>
                  THEN [@ EXCEPT !.pc = "done", !.body = body, !.response = Some("NO_CONTENT")]
                  ELSE [@ EXCEPT !.pc = "insert_events", !.body = body, !.events = events]]
    /\ UNCHANGED <<ops_vars, det_vars, mc_vars, al_vars, analyzer_lock, metrics, event_repo, anomaly_repo>>

\* insert_events returns Ok
InsertEventsOk(i) ==
    /\ ingest[i].pc = "insert_events"
    /\ event_repo' = Append(event_repo, ingest[i].events)
    /\ ingest' = [ingest EXCEPT ![i].pc = "lock", ![i].persisted = TRUE]
    /\ UNCHANGED <<ops_vars, det_vars, mc_vars, al_vars, analyzer_lock, metrics, anomaly_repo>>

\* insert_events returns Err: record_ingest_error, Err(AppError::Internal)
InsertEventsFails(i) ==
    /\ ingest[i].pc = "insert_events"
    /\ metrics' = record_ingest_error(metrics)
    /\ ingest' = [ingest EXCEPT ![i].pc = "done", ![i].response = Some("Internal")]
    /\ UNCHANGED <<ops_vars, det_vars, mc_vars, al_vars, analyzer_lock, event_repo, anomaly_repo>>

\* state.analyzer.lock().await resolves
Lock(i) ==
    /\ ingest[i].pc = "lock"
    /\ lock_free(analyzer_lock)
    /\ analyzer_lock' = i
    /\ ingest' = [ingest EXCEPT ![i].pc = "analyze"]
    /\ UNCHANGED <<ops_vars, det_vars, mc_vars, al_vars, metrics, event_repo, anomaly_repo>>

\* analyze_batch under the guard, and the drop of the guard at the end of the block
AnalyzeLocked(i) ==
    /\ ingest[i].pc = "analyze"
    /\ \E clock \in {c \in WallClock : c >= now} :
          LET r == analyze_batch(analyzer, ingest[i].events, key_rules, transfer_window_ms,
                                 key_item_window_ms, strict_pickup_window_ms,
                                 strict_pickup_threshold, clock)
          IN  /\ analyzer' = r.st
              /\ anomalies' = r.anomalies
              /\ trace' = r.trace
              /\ now' = clock
              /\ processed' = processed + Len(ingest[i].events)
              /\ recorded' = recorded \cup RecordedTransfers(trace)
              /\ ingest' = [ingest EXCEPT ![i].anomalies = r.anomalies, ![i].analyzed = TRUE,
                                          ![i].trace = r.trace,
                                          ![i].pc = IF r.anomalies = <<>> THEN "record_ingest"
                                                    ELSE "insert_anomalies"]
    /\ analyzer_lock' = 0
    /\ UNCHANGED <<ops_vars, key_rules, strict_enabled, log, mc_vars, al_vars, metrics, event_repo,
                   anomaly_repo>>

\* insert_anomalies returns; an Err is logged and nothing else
InsertAnomalies(i) ==
    /\ ingest[i].pc = "insert_anomalies"
    /\ \E result \in RepoResults :
          /\ anomaly_repo' = IF result = Ok THEN Append(anomaly_repo, ingest[i].anomalies)
                             ELSE anomaly_repo
          /\ ingest' = [ingest EXCEPT ![i].pc = after_insert_anomalies(result),
                                      ![i].inserted = Some(result = Ok)]
    /\ UNCHANGED <<ops_vars, det_vars, mc_vars, al_vars, analyzer_lock, metrics, event_repo>>

\* record_anomalies and spawn_alerts
RecordAnomalies(i) ==
    /\ ingest[i].pc = "record_anomalies"
    /\ metrics' = record_anomalies(metrics, Len(ingest[i].anomalies))
    /\ tasks' = [tasks EXCEPT ![i] = spawn_alerts(@, IngestConfig, ingest[i].anomalies)]
    /\ ingest' = [ingest EXCEPT ![i].pc = "record_ingest"]
    /\ UNCHANGED <<ops_vars, det_vars, mc_vars, deliveries, history_limit, wall_ms, analyzer_lock,
                   event_repo, anomaly_repo>>

\* record_ingest and Ok(())
RecordIngest(i) ==
    /\ ingest[i].pc = "record_ingest"
    /\ metrics' = record_ingest(metrics, Len(ingest[i].events))
    /\ ingest' = [ingest EXCEPT ![i].pc = "done", ![i].response = Some("OK")]
    /\ UNCHANGED <<ops_vars, det_vars, mc_vars, al_vars, analyzer_lock, event_repo, anomaly_repo>>

InNext ==
    \/ \E i \in Requests :
          \/ IngestRejected(i)
          \/ IngestItems(i)
          \/ InsertEventsOk(i)
          \/ InsertEventsFails(i)
          \/ Lock(i)
          \/ AnalyzeLocked(i)
          \/ InsertAnomalies(i)
          \/ RecordAnomalies(i)
          \/ RecordIngest(i)
    \/ \E d \in Deliveries : TaskStep(d)

(***************************************************************************)
(* issue_op_token (op_token_commands.rs)                                   *)
(***************************************************************************)
\* the number of issue_op_token calls in one behaviour, numbered in the order
\* they start
MaxIssues == 2
Issues == 1 .. MaxIssues

DEFAULT_SERVER_ID == "server-01"
TOKEN_PREFIX == "lattice"
TOKEN_VERSION == "v2"

\* str::trim on the texts that occur in the requests and in the mod-configs
trim(s) ==
    CASE s = " " -> ""
      [] s = " group_a " -> "group_a"
      [] s = " S1 " -> "S1"
      [] OTHER -> s

\* str::to_lowercase on the server ids that occur
to_lowercase(s) == IF s = "S1" THEN "s1" ELSE s

\* normalize_optional_text
normalize_optional_text(value) ==
    IF value = None THEN None
    ELSE IF trim(value[1]) = "" THEN None ELSE Some(trim(value[1]))

\* normalize_server_id of op_token_commands.rs
op_server_id(value) ==
    IF normalize_optional_text(value) = None THEN DEFAULT_SERVER_ID
    ELSE to_lowercase(normalize_optional_text(value)[1])

\* the same with an empty list of groups allowing every group
is_group_authorized_open(allowed_group_ids, group_id) ==
    \/ allowed_group_ids = <<>>
    \/ \E i \in DOMAIN allowed_group_ids : allowed_group_ids[i] = group_id

\* allowed_group_ids.iter().any(|candidate| candidate == group_id)
is_group_authorized(allowed_group_ids, group_id) ==
    \E i \in DOMAIN allowed_group_ids : allowed_group_ids[i] = group_id

\* authorize_issue: "" for Ok(()), else the error
authorize_issue(config, group_id) ==
    IF group_id = None \/ trim(group_id[1]) = "" THEN "BadRequest"
    ELSE IF is_group_authorized(config.op_token_allowed_group_ids, trim(group_id[1]))
    THEN ""
    ELSE "Unauthorized"

\* serde_json values: their type and their text
JsonBool(b) == [type |-> "bool", text |-> IF b THEN "true" ELSE "false"]
JsonString(s) == [type |-> "string", text |-> s]
JsonNumber(n) == [type |-> "number", text |-> ToString(n)]
\* Value::get on an object, Value::as_bool, Value::as_str
json_get(config, key) == IF key \in DOMAIN config THEN Some(config[key]) ELSE None
as_bool(value) == IF value.type = "bool" THEN Some(value.text = "true") ELSE None
as_str(value) == IF value.type = "string" THEN Some(value.text) ELSE None

\* envelope.config.get("op_command_token_required").and_then(|value| value.as_bool())
token_required(config) ==
    IF json_get(config, "op_command_token_required") = None THEN None
    ELSE as_bool(json_get(config, "op_command_token_required")[1])

\* envelope.config.get("op_command_token_secret").and_then(as_str).map(str::trim)
\*     .filter(|value| !value.is_empty())
token_secret(config) ==
    IF json_get(config, "op_command_token_secret") = None THEN None
    ELSE LET text == as_str(json_get(config, "op_command_token_secret")[1])
         IN  IF text = None THEN None
             ELSE IF trim(text[1]) = "" THEN None ELSE Some(trim(text[1]))

\* hex(hmac_sha256(secret, payload)), a value that determines both
sign_hmac_sha256(secret, payload) == <<"hmac", secret, payload>>

\* issue_op_token once get_mod_config returned envelope, on the day and with the
\* fresh uuid given
issue_result(envelope, day, token_id) ==
    IF envelope = None THEN [error |-> "BadRequest", token |-> None]
    ELSE IF token_required(envelope[1].config) = None
    THEN [error |-> "BadRequest", token |-> None]
    ELSE IF ~token_required(envelope[1].config)[1]
    THEN [error |-> "BadRequest", token |-> None]
    ELSE IF token_secret(envelope[1].config) = None
    THEN [error |-> "BadRequest", token |-> None]
    ELSE [error |-> "",
          token |-> Some(<<TOKEN_PREFIX, TOKEN_VERSION, day, token_id,
                           sign_hmac_sha256(token_secret(envelope[1].config)[1],
                                            <<TOKEN_PREFIX, TOKEN_VERSION, day, token_id>>)>>)]

OpConfig(allowed_group_ids, admin_ids) ==
    [op_token_allowed_group_ids |-> allowed_group_ids, op_token_admin_ids |-> admin_ids]
NoGroups == OpConfig(<<>>, <<>>)
OpConfigs ==
    { OpConfig(allowed, admins) :
        allowed \in {<<>>, <<"group_a">>}, admins \in {<<>>, <<"admin_1">>, <<"group_b">>} }

TokenConfig(required, secret) ==
    [k \in {"op_command_token_required", "op_command_token_secret"} |->
        IF k = "op_command_token_required" THEN required ELSE secret]
\* the mod-configs a server may hold
TokenConfigs ==
    { TokenConfig(JsonBool(TRUE), JsonString("s3cret")),
      TokenConfig(JsonBool(FALSE), JsonString("s3cret")),
      TokenConfig(JsonString("true"), JsonString("s3cret")),
      TokenConfig(JsonBool(TRUE), JsonString(" ")),
      TokenConfig(JsonBool(TRUE), JsonNumber(7)),
      [k \in {"op_command_token_secret"} |-> JsonString("s3cret")],
      [k \in {"op_command_token_required"} |-> JsonBool(TRUE)] }

\* the requests: group_id, operator_id, server_id
IssueRequests ==
    [ group_id : {None, Some(" "), Some("group_a"), Some(" group_a "), Some("group_b")},
      operator_id : {None, Some("admin_1")},
      server_id : {None, Some(" S1 ")} ]

Days == {"20261103"}
Uuids == {"u1", "u2"}

\* an issue_op_token call: envelope is what get_mod_config returned
IdleIssue ==
    [pc |-> "idle", request |-> [group_id |-> None, operator_id |-> None, server_id |-> None],
     server_id |-> "", envelope |-> None, error |-> "", token |-> None]

\* the configuration and the mod-configs of the servers, cached or not
TokenInit ==
    /\ op_config \in OpConfigs
    /\ op_token = [t \in Issues |-> IdleIssue]
    /\ \E held \in {EmptyMap}
                 \cup {[s \in {DEFAULT_SERVER_ID} |-> Envelope(s, 1, c)] : c \in TokenConfigs}
                 \cup {[s \in {"s1"} |-> Envelope(s, 1, TokenConfig(JsonBool(TRUE),
                                                                   JsonString("s3cret")))]} :
          /\ disk = held
          /\ disk0 = held
          /\ mod_configs \in {EmptyMap, held}
    /\ put = [p \in Puts |-> IdlePut]
    /\ returns = <<>>
    /\ sub = [s \in Subs |-> IdleSub]
    /\ inbox = [s \in Subs |-> <<>>]
    /\ received = [s \in Subs |-> <<>>]

\* issue_op_token up to the read of the cache in get_mod_config: the group is
\* authorized, and a cached envelope decides the call
IssueBegin(t) ==
    /\ op_token[t].pc = "idle"
    /\ \A b \in 1 .. (t - 1) : op_token[b].pc # "idle"
    /\ \E request \in IssueRequests, day \in Days, token_id \in Uuids :
         LET server_id == op_server_id(request.server_id)
             denied == authorize_issue(op_config, normalize_optional_text(request.group_id))
             cached == cache_get(mod_configs, server_id)
             issued == issue_result(cached, day, token_id)
         IN  op_token' = [op_token EXCEPT ![t] =
                 IF denied # ""
                 THEN [pc |-> "failed", request |-> request, server_id |-> server_id,
                       envelope |-> None, error |-> denied, token |-> None]
                 ELSE IF cached # None
                 THEN [pc |-> IF issued.error = "" THEN "done" ELSE "failed",
                       request |-> request, server_id |-> server_id, envelope |-> cached,
                       error |-> issued.error, token |-> issued.token]
                 ELSE [pc |-> "load", request |-> request, server_id |-> server_id,
                       envelope |-> None, error |-> "", token |-> None]]
    /\ UNCHANGED <<det_vars, mc_vars, al_vars, in_vars, beside_token, op_config>>

\* get_mod_config loads the file after a cache miss; without a file the call fails
IssueLoad(t) ==
    /\ op_token[t].pc = "load"
    /\ LET loaded == cache_get(disk, op_token[t].server_id)
       IN  op_token' = [op_token EXCEPT
               ![t].pc = IF loaded # None THEN "insert" ELSE "failed",
               ![t].envelope = loaded,
               ![t].error = IF loaded # None THEN "" ELSE "BadRequest"]
    /\ UNCHANGED <<det_vars, mc_vars, al_vars, in_vars, beside_token, op_config>>

\* load_mod_config fails: Internal
IssueLoadFails(t) ==
    /\ op_token[t].pc = "load"
    /\ op_token[t].server_id \in DOMAIN disk
    /\ op_token' = [op_token EXCEPT ![t].pc = "failed", ![t].error = "Internal"]
    /\ UNCHANGED <<det_vars, mc_vars, al_vars, in_vars, beside_token, op_config>>

\* get_mod_config caches what it loaded; the envelope decides the call
IssueInsert(t) ==
    /\ op_token[t].pc = "insert"
    /\ mod_configs' = Put(mod_configs, op_token[t].server_id, op_token[t].envelope[1])
    /\ \E day \in Days, token_id \in Uuids :
         LET issued == issue_result(op_token[t].envelope, day, token_id)
         IN  op_token' = [op_token EXCEPT
                 ![t].pc = IF issued.error = "" THEN "done" ELSE "failed",
                 ![t].error = issued.error,
                 ![t].token = issued.token]
    /\ UNCHANGED <<det_vars, al_vars, in_vars, disk, disk0, put, returns, sub, inbox, received,
                   beside_token, op_config>>

TokenNext ==
    \E t \in Issues :
        \/ IssueBegin(t)
        \/ IssueLoad(t)
        \/ IssueLoadFails(t)
        \/ IssueInsert(t)

(***************************************************************************)
(* update_key_items (key_item_commands.rs) and the rule file               *)
(***************************************************************************)
\* the number of update_key_items calls in one behaviour, numbered in the order
\* they start
MaxReplaces == 2
Replaces == 1 .. MaxReplaces

\* the files ConfigFileRepository reads and writes
FileKinds == {"key_items", "item_registry", "rcon", "mod_config", "mod_config_ack"}
NoFiles == [k \in FileKinds |-> None]

KeyItemRuleApi(item_id, threshold, risk_level) ==
    [item_id |-> item_id, threshold |-> threshold, risk_level |-> risk_level]

\* str::trim().to_lowercase() on the item ids that occur in the incoming rules
TrimLower(s) ==
    CASE s = " Mod:Gem " -> "mod:gem"
      [] s = "  " -> ""
      [] s = "Gem" -> "gem"
      [] OTHER -> s

\* str::contains(':') on the normalized item ids that occur
contains_colon(s) == s \in {"mod:gem", "mod:ore"}

\* String::cmp on the normalized item ids that pass the checks
item_lt(a, b) == a = "mod:gem" /\ b = "mod:ore"

\* KeyItemRuleApi::normalized
normalized(rule) ==
    KeyItemRuleApi(TrimLower(rule.item_id), rule.threshold, TrimUpper(rule.risk_level))

\* the same checks without the one on the threshold
key_rule_error_any_threshold(rule) ==
    IF rule.item_id = "" THEN "item_id is required"
    ELSE IF ~contains_colon(rule.item_id) THEN "invalid item_id"
    ELSE IF rule.risk_level \notin {"LOW", "MEDIUM", "HIGH"} THEN "invalid risk_level"
    ELSE ""

\* the checks of update_key_items on one normalized rule: the message of the
\* BadRequest, "" when the rule passes
key_rule_error(rule) ==
    IF rule.item_id = "" THEN "item_id is required"
    ELSE IF ~contains_colon(rule.item_id) THEN "invalid item_id"
    ELSE IF rule.threshold = 0 THEN "threshold must be > 0"
    ELSE IF rule.risk_level \notin {"LOW", "MEDIUM", "HIGH"} THEN "invalid risk_level"
    ELSE ""

\* impl From<KeyItemRuleApi> for KeyItemRule
from_api(rule) ==
    [ item_id |-> rule.item_id, threshold |-> Some(rule.threshold), max_per_10m |-> None,
      risk_level |-> Some(rule.risk_level), weight |-> None ]

\* the loop of update_key_items over the incoming rules from the i-th on: the first
\* BadRequest, or the rules pushed
RECURSIVE check_rules(_, _, _)
check_rules(incoming, i, rules) ==
    IF i > Len(incoming) THEN [error |-> "", rules |-> rules]
    ELSE LET rule == normalized(incoming[i])
         IN  IF key_rule_error(rule) # ""
             THEN [error |-> key_rule_error(rule), rules |-> <<>>]
             ELSE check_rules(incoming, i + 1, Append(rules, from_api(rule)))

\* rules.sort_by(|a, b| a.item_id.cmp(&b.item_id)): a stable sort
RECURSIVE sort_by_item_id(_)
sort_by_item_id(rules) ==
    IF rules = <<>> THEN <<>>
    ELSE LET rest == sort_by_item_id(Tail(rules))
             first == Head(rules)
             before == SelectSeq(rest, LAMBDA r : item_lt(r.item_id, first.item_id))
             after == SelectSeq(rest, LAMBDA r : ~item_lt(r.item_id, first.item_id))
         IN  before \o <<first>> \o after

\* rules.into_iter().map(|rule| (rule.item_id.clone(), rule)).collect(): a later
\* rule replaces an earlier one of the same item
RECURSIVE collect_rules(_)
collect_rules(rules) ==
    IF rules = <<>> THEN EmptyMap
    ELSE LET last == rules[Len(rules)]
             init == collect_rules(SubSeq(rules, 1, Len(rules) - 1))
         IN  Put(init, last.item_id, last)

GemRule == KeyItemRuleApi(" Mod:Gem ", 2, " low ")
OreRule == KeyItemRuleApi("mod:ore", 1, "high")
GemAgain == KeyItemRuleApi("mod:gem", 5, "MEDIUM")
BadRules ==
    { KeyItemRuleApi("  ", 2, "HIGH"), KeyItemRuleApi("Gem", 2, "HIGH"),
      KeyItemRuleApi("mod:gem", 0, "HIGH"), KeyItemRuleApi("mod:gem", 2, "EXTREME"),
      KeyItemRuleApi("mod:gem", 2, " ") }
\* the bodies of PUT key-items
IncomingRules ==
    {<<>>, <<GemRule>>, <<OreRule, GemRule>>, <<GemRule, GemAgain>>}
        \cup {<<bad>> : bad \in BadRules}
        \cup {<<OreRule, bad>> : bad \in BadRules}

\* an update_key_items call: rules is the Vec it built, saved is history (its
\* save_key_items returned Ok)
IdleReplace ==
    [pc |-> "idle", incoming |-> <<>>, rules |-> <<>>, error |-> "", saved |-> FALSE]

\* the rule file the service was started with, and the mapping loaded from it
RulesInit ==
    /\ \E stored \in {None, Some(<<from_api(normalized(OreRule))>>)} :
          /\ files = [NoFiles EXCEPT !["key_items"] = stored]
          /\ key_rules = IF stored = None THEN EmptyMap ELSE collect_rules(stored[1])
    /\ replace = [c \in Replaces |-> IdleReplace]
    /\ analyzer = EmptyAnalyzer
    /\ strict_enabled = FALSE
    /\ now = 0
    /\ anomalies = <<>>
    /\ trace = <<>>
    /\ processed = 0
    /\ recorded = {}
    /\ log = <<>>

\* update_key_items up to save_key_items: the checks of every incoming rule, and
\* the sort
ReplaceBegin(c) ==
    /\ replace[c].pc = "idle"
    /\ \A b \in 1 .. (c - 1) : replace[b].pc # "idle"
    /\ \E incoming \in IncomingRules :
         LET checked == check_rules(incoming, 1, <<>>)
         IN  replace' = [replace EXCEPT ![c] =
                 IF checked.error # ""
                 THEN [pc |-> "failed", incoming |-> incoming, rules |-> <<>>,
                       error |-> "BadRequest", saved |-> FALSE]
                 ELSE [pc |-> "save", incoming |-> incoming,
                       rules |-> sort_by_item_id(checked.rules), error |-> "",
                       saved |-> FALSE]]
    /\ UNCHANGED <<det_vars, mc_vars, al_vars, in_vars, beside_rules, files>>

\* save_key_items writes the rule file
ReplaceSave(c) ==
    /\ replace[c].pc = "save"
    /\ files' = [files EXCEPT !["key_items"] = Some(replace[c].rules)]
    /\ replace' = [replace EXCEPT ![c].pc = "swap", ![c].saved = TRUE]
    /\ UNCHANGED <<det_vars, mc_vars, al_vars, in_vars, beside_rules>>

\* save_key_items fails: Internal
ReplaceSaveFails(c) ==
    /\ replace[c].pc = "save"
    /\ replace' = [replace EXCEPT ![c].pc = "failed", ![c].error = "Internal"]
    /\ UNCHANGED <<det_vars, mc_vars, al_vars, in_vars, beside_rules, files>>

\* *state.key_rules.write().await = map
ReplaceSwap(c) ==
    /\ replace[c].pc = "swap"
    /\ key_rules' = collect_rules(replace[c].rules)
    /\ replace' = [replace EXCEPT ![c].pc = "done"]
    /\ UNCHANGED <<analyzer, strict_enabled, now, anomalies, trace, processed, recorded, log,
                   mc_vars, al_vars, in_vars, beside_rules, files>>

RulesNext ==
    \E c \in Replaces :
        \/ ReplaceBegin(c)
        \/ ReplaceSave(c)
        \/ ReplaceSaveFails(c)
        \/ ReplaceSwap(c)

(***************************************************************************)
(* The config store (config_files.rs)                                      *)
(***************************************************************************)
\* a file that cannot be parsed
Corrupt == <<[corrupt |-> TRUE]>>

\* anyhow::Result of a load: Err, or Ok of a value
LoadErr == [ok |-> FALSE, value |-> <<>>]
LoadOk(value) == [ok |-> TRUE, value |-> <<value>>]

\* RconConfig::default()
RconDefault ==
    [host |-> "127.0.0.1", port |-> 25575, password |-> "", enabled |-> FALSE, source |-> None]

\* what each file may hold when it parses
FileContents ==
    [k \in FileKinds |->
        CASE k = "key_items" -> <<from_api(normalized(OreRule))>>
          [] k = "item_registry" -> <<[item_id |-> "mod:gem"]>>
          [] k = "rcon" -> <<[RconDefault EXCEPT !.host = "10.0.0.2", !.enabled = TRUE]>>
          [] k = "mod_config" -> <<Envelope("s1", 1, "{k:1}")>>
          [] k = "mod_config_ack" -> <<[server_id |-> "s1", revision |-> 1, status |-> "APPLIED"]>>]

\* load_key_items: read_to_string fails on a missing file
load_key_items(fs) ==
    IF fs["key_items"] = None THEN LoadErr
    ELSE IF fs["key_items"][1] = Corrupt THEN LoadErr
    ELSE LoadOk(collect_rules(fs["key_items"][1]))

\* load_item_registry
load_item_registry(fs) ==
    IF fs["item_registry"] = None THEN LoadOk(<<>>)
    ELSE IF fs["item_registry"][1] = Corrupt THEN LoadErr
    ELSE LoadOk(fs["item_registry"][1])

\* load_rcon_config
load_rcon_config(fs) ==
    IF fs["rcon"] = None THEN LoadOk(RconDefault)
    ELSE IF fs["rcon"][1] = Corrupt THEN LoadErr
    ELSE LoadOk(fs["rcon"][1][1])

\* load_mod_config of the server whose file fs["mod_config"] is
load_mod_config(fs) ==
    IF fs["mod_config"] = None THEN LoadOk(None)
    ELSE IF fs["mod_config"][1] = Corrupt THEN LoadErr
    ELSE LoadOk(Some(fs["mod_config"][1][1]))

\* load_mod_config_ack of the server whose file fs["mod_config_ack"] is
load_mod_config_ack(fs) ==
    IF fs["mod_config_ack"] = None THEN LoadOk(None)
    ELSE IF fs["mod_config_ack"][1] = Corrupt THEN LoadErr
    ELSE LoadOk(Some(fs["mod_config_ack"][1][1]))

\* the load operation of each file
load(kind, fs) ==
    CASE kind = "key_items" -> load_key_items(fs)
      [] kind = "item_registry" -> load_item_registry(fs)
      [] kind = "rcon" -> load_rcon_config(fs)
      [] kind = "mod_config" -> load_mod_config(fs)
      [] kind = "mod_config_ack" -> load_mod_config_ack(fs)

\* absent is history: the file was missing when it was loaded
NoLoad == [op |-> "", absent |-> FALSE, result |-> LoadErr]

StoreInit ==
    /\ files \in {NoFiles, [k \in FileKinds |-> Some(FileContents[k])]}
    /\ last_load = NoLoad

\* one of the five load operations
Load(kind) ==
    /\ last_load' = [op |-> kind, absent |-> files[kind] = None, result |-> load(kind, files)]
    /\ UNCHANGED <<det_vars, mc_vars, al_vars, in_vars, beside_store, files>>

\* save_key_items, save_item_registry, save_rcon_config, save_mod_config,
\* save_mod_config_ack: fs::write of the serialized value
SaveFile(kind) ==
    /\ files[kind] # Some(FileContents[kind])
    /\ files' = [files EXCEPT ![kind] = Some(FileContents[kind])]
    /\ UNCHANGED <<det_vars, mc_vars, al_vars, in_vars, beside_store, last_load>>

\* the operator removes a file, or leaves one that does not parse
EditFile(kind) ==
    /\ \E content \in {None, Some(Corrupt)} :
          /\ files[kind] # content
          /\ files' = [files EXCEPT ![kind] = content]
    /\ UNCHANGED <<det_vars, mc_vars, al_vars, in_vars, beside_store, last_load>>

StoreNext ==
    \E kind \in FileKinds :
        \/ Load(kind)
        \/ SaveFile(kind)
        \/ EditFile(kind)

(***************************************************************************)
(* Socket mode of the alert service: send_ws_alerts and try_ws_send        *)
(***************************************************************************)
WS_RESPONSE_TIMEOUT_SECONDS == 8

\* the number of messages the bot sends on one connection
MaxWsMessages == 2

\* format!("lattice-{}", timestamp_millis) of the one call the model makes
SentEcho == "lattice-1"
BotUrl == "ws://bot"

\* a JSON object with the keys that are given
JsonObject(echo, status, retcode) ==
    LET all == [echo |-> echo, status |-> status, retcode |-> retcode]
    IN  [k \in {x \in {"echo", "status", "retcode"} : all[x] # None} |-> all[k][1]]

\* Value::as_i64 on the numbers that occur
as_i64(value) ==
    IF value.type # "number" THEN None
    ELSE CASE value.text = "0" -> Some(0)
           [] value.text = "1" -> Some(1)
           [] value.text = "1400" -> Some(1400)

normalize_echo_value(value) ==
    IF value.type \in {"string", "number"} THEN Some(value.text) ELSE None

\* text is None when it is not JSON, else the object; the result is None or
\* Some of (echo, status, retcode), detail left out
parse_onebot_action_response(text) ==
    IF text = None THEN None
    ELSE LET value == text[1]
             echo == IF json_get(value, "echo") = None THEN None
                     ELSE normalize_echo_value(json_get(value, "echo")[1])
             status == IF json_get(value, "status") = None THEN None
                       ELSE as_str(json_get(value, "status")[1])
             retcode == IF json_get(value, "retcode") = None THEN None
                        ELSE as_i64(json_get(value, "retcode")[1])
         IN  IF echo = None /\ status = None /\ retcode = None THEN None
             ELSE Some([echo |-> echo, status |-> status, retcode |-> retcode])

WsText(text) == [kind |-> "text", text |-> text]
WsFrame(kind) == [kind |-> kind, text |-> None]

\* the match on ws.next() with every response taken for the awaited one
ws_step_any_echo(message, expected_echo) ==
    CASE message.kind = "text" ->
            LET parsed == parse_onebot_action_response(message.text)
            IN  IF parsed = None THEN "continue"
                ELSE IF parsed[1].status = Some("ok") \/ parsed[1].retcode = Some(0)
                THEN "ok" ELSE "rejected"
      [] message.kind = "ping" -> "ping"
      [] message.kind = "close" -> "closed"
      [] message.kind = "error" -> "receive"
      [] message.kind = "end" -> "ended"
      [] OTHER -> "continue"

\* the match on ws.next() in the loop of try_ws_send: what the message makes of
\* the try
ws_step(message, expected_echo) ==
    CASE message.kind = "text" ->
            LET parsed == parse_onebot_action_response(message.text)
            IN  IF parsed = None THEN "continue"
                ELSE IF parsed[1].echo # Some(expected_echo) THEN "continue"
                ELSE IF parsed[1].status = Some("ok") \/ parsed[1].retcode = Some(0)
                THEN "ok" ELSE "rejected"
      [] message.kind = "ping" -> "ping"
      [] message.kind = "close" -> "closed"
      [] message.kind = "error" -> "receive"
      [] message.kind = "end" -> "ended"
      [] OTHER -> "continue"

\* add_access_token_query on the url of the model, which has no query string
add_access_token_query(url, token) ==
    IF token = None THEN url ELSE url \o "?access_token=" \o token[1]

\* what the bot and the transport may deliver on a connection
WsMessages ==
    { WsText(Some(JsonObject(Some(JsonString(SentEcho)), Some(JsonString("ok")), None))),
      WsText(Some(JsonObject(Some(JsonString(SentEcho)), Some(JsonString("failed")),
                             Some(JsonNumber(0))))),
      WsText(Some(JsonObject(Some(JsonString(SentEcho)), Some(JsonString("failed")),
                             Some(JsonNumber(1400))))),
      WsText(Some(JsonObject(Some(JsonString(SentEcho)), None, None))),
      WsText(Some(JsonObject(Some(JsonString("lattice-0")), Some(JsonString("ok")),
                             Some(JsonNumber(0))))),
      WsText(Some(JsonObject(Some(JsonNumber(1)), Some(JsonString("ok")), None))),
      WsText(Some(JsonObject(None, Some(JsonString("ok")), Some(JsonNumber(0))))),
      WsText(Some(JsonObject(None, None, None))),
      WsText(None),
      WsFrame("ping"), WsFrame("binary"), WsFrame("close"), WsFrame("error"),
      WsFrame("end") }

\* a send_ws_alerts call: token, use_query, elapsed (seconds since the timeout was
\* armed) and result are its locals; connected, sent, ignored, decided and at
\* describe the try under way, tries is the history of the tries that ended
IdleWs ==
    [pc |-> "idle", token |-> None, use_query |-> FALSE, elapsed |-> 0, result |-> None,
     url |-> "", authorization |-> None, sent |-> FALSE, ignored |-> <<>>, tries |-> <<>>]

WsInit == ws = IdleWs

\* the end of a try_ws_send call and what send_ws_alerts does with its result
end_try(call, outcome, decided, at) ==
    LET try == [use_query |-> call.use_query, url |-> call.url,
                authorization |-> call.authorization, sent |-> call.sent,
                ignored |-> call.ignored, decided |-> decided, at |-> at,
                outcome |-> outcome]
        ended == [call EXCEPT !.tries = Append(@, try), !.elapsed = 0, !.sent = FALSE,
                              !.ignored = <<>>, !.url = "", !.authorization = None]
    IN  IF outcome = "ok" THEN [ended EXCEPT !.pc = "done", !.result = Some("ok")]
        ELSE IF ~call.use_query /\ call.token # None
        THEN [ended EXCEPT !.pc = "connect", !.use_query = TRUE]
        ELSE [ended EXCEPT !.pc = "done", !.result = Some(outcome)]

\* send_ws_alerts up to the first try_ws_send
WsBegin ==
    /\ ws.pc = "idle"
    /\ \E token \in {None, Some("secret")}, group_id \in {None, Some(7)} :
          ws' = IF group_id = None
                THEN [ws EXCEPT !.pc = "done", !.token = token,
                                !.result = Some("alert_group_id not configured")]
                ELSE [ws EXCEPT !.pc = "connect", !.token = token]
    /\ UNCHANGED <<det_vars, mc_vars, al_vars, in_vars, beside_ws>>

\* try_ws_send builds the request and connect_async succeeds
WsConnect ==
    /\ ws.pc = "connect"
    /\ ws' = [ws EXCEPT !.pc = "send",
                        !.url = IF ws.use_query THEN add_access_token_query(BotUrl, ws.token)
                                ELSE BotUrl,
                        !.authorization = IF ws.token # None /\ ~ws.use_query
                                          THEN Some("Bearer " \o ws.token[1]) ELSE None]
    /\ UNCHANGED <<det_vars, mc_vars, al_vars, in_vars, beside_ws>>

\* connect_async fails
WsConnectFails ==
    /\ ws.pc = "connect"
    /\ ws' = end_try([ws EXCEPT !.url = IF ws.use_query
                                        THEN add_access_token_query(BotUrl, ws.token)
                                        ELSE BotUrl,
                                !.authorization = IF ws.token # None /\ ~ws.use_query
                                                  THEN Some("Bearer " \o ws.token[1])
                                                  ELSE None],
                     "handshake", None, 0)
    /\ UNCHANGED <<det_vars, mc_vars, al_vars, in_vars, beside_ws>>

\* ws.send(payload) succeeds and the timeout is armed
WsSend ==
    /\ ws.pc = "send"
    /\ ws' = [ws EXCEPT !.pc = "wait", !.sent = TRUE, !.elapsed = 0]
    /\ UNCHANGED <<det_vars, mc_vars, al_vars, in_vars, beside_ws>>

\* ws.send(payload) fails
WsSendFails ==
    /\ ws.pc = "send"
    /\ ws' = end_try(ws, "send", None, 0)
    /\ UNCHANGED <<det_vars, mc_vars, al_vars, in_vars, beside_ws>>

\* one turn of the loop: ws.next() yields a message before the timeout; the Pong
\* that answers a Ping is sent or fails
WsReceive ==
    /\ ws.pc = "wait"
    /\ ws.elapsed < WS_RESPONSE_TIMEOUT_SECONDS
    /\ Len(ws.ignored) < MaxWsMessages
    /\ \E message \in WsMessages, pong_sent \in BOOLEAN :
          LET step == ws_step(message, SentEcho)
          IN  /\ step # "ping" => pong_sent
              /\ ws' = IF step = "continue" \/ (step = "ping" /\ pong_sent)
                       THEN [ws EXCEPT !.ignored = Append(@, message)]
                       ELSE end_try(ws, IF step = "ping" THEN "pong" ELSE step,
                                    Some(message), ws.elapsed)
    /\ UNCHANGED <<det_vars, mc_vars, al_vars, in_vars, beside_ws>>

\* a second passes while the loop waits
WsTick ==
    /\ ws.pc = "wait"
    /\ ws.elapsed < WS_RESPONSE_TIMEOUT_SECONDS
    /\ ws' = [ws EXCEPT !.elapsed = @ + 1]
    /\ UNCHANGED <<det_vars, mc_vars, al_vars, in_vars, beside_ws>>

\* the timeout of 8 s elapses
WsTimeout ==
    /\ ws.pc = "wait"
    /\ ws.elapsed = WS_RESPONSE_TIMEOUT_SECONDS
    /\ ws' = end_try(ws, "timeout", None, ws.elapsed)
    /\ UNCHANGED <<det_vars, mc_vars, al_vars, in_vars, beside_ws>>

WsNext ==
    \/ WsBegin
    \/ WsConnect
    \/ WsConnectFails
    \/ WsSend
    \/ WsSendFails
    \/ WsReceive
    \/ WsTick
    \/ WsTimeout

(***************************************************************************)
(* A channel of the stream hub under a slow subscriber                     *)
(***************************************************************************)
CHANNEL_BUFFER == 64

\* the number of publish calls for the server in one behaviour, enough to leave a
\* subscriber more than CHANNEL_BUFFER messages behind
MaxPublishes == 67

\* broadcast::Receiver::recv, with no message waiting left out (it suspends), on a
\* lag moving the cursor to the tail of the channel
broadcast_recv_to_tail(pos, next) ==
    IF pos - next > CHANNEL_BUFFER
    THEN [kind |-> "lagged", value |-> pos - CHANNEL_BUFFER - next, next |-> pos]
    ELSE [kind |-> "envelope", value |-> next + 1, next |-> next + 1]

\* broadcast::Receiver::recv, with no message waiting left out (it suspends): pos
\* is the number of messages the channel took, next the cursor of the receiver;
\* the channel retains the last CHANNEL_BUFFER messages, the value of a message is
\* its number
broadcast_recv(pos, next) ==
    IF pos - next > CHANNEL_BUFFER
    THEN [kind |-> "lagged", value |-> pos - CHANNEL_BUFFER - next,
          next |-> pos - CHANNEL_BUFFER]
    ELSE [kind |-> "envelope", value |-> next + 1, next |-> next + 1]

\* the channel of one server and the one stream that subscribes to it: published
\* counts the publish calls, dropped those of them that found no receiver, pos and
\* next are the tail of the channel and the cursor of the receiver; got is the
\* history of what recv() returned
IdleRing ==
    [pc |-> "idle", published |-> 0, dropped |-> 0, pos |-> 0, next |-> 0, got |-> <<>>]

RingInit == ring = IdleRing

\* ModConfigStreamHub::subscribe: the receiver starts at the tail of the channel
RingSubscribe ==
    /\ ring.pc = "idle"
    /\ ring.published <= 1
    /\ ring' = [ring EXCEPT !.pc = "stream", !.next = ring.pos]
    /\ UNCHANGED <<det_vars, mc_vars, al_vars, in_vars, beside_ring>>

\* ModConfigStreamHub::publish: tx.send stores the envelope when the channel has a
\* receiver and returns an Err that is dropped when it has none
RingPublish ==
    /\ ring.published < MaxPublishes
    /\ ring' = IF ring.pc = "stream"
               THEN [ring EXCEPT !.published = @ + 1, !.pos = @ + 1]
               ELSE [ring EXCEPT !.published = @ + 1, !.dropped = @ + 1]
    /\ UNCHANGED <<det_vars, mc_vars, al_vars, in_vars, beside_ring>>

\* one turn of the loop of handle_mod_config_stream on receiver.recv(): an
\* envelope is sent to the socket, a Lagged is logged
RingRecv ==
    /\ ring.pc = "stream"
    /\ ring.next < ring.pos
    /\ LET r == broadcast_recv(ring.pos, ring.next)
       IN  ring' = [ring EXCEPT !.next = r.next,
                                !.got = Append(@, [kind |-> r.kind, value |-> r.value])]
    /\ UNCHANGED <<det_vars, mc_vars, al_vars, in_vars, beside_ring>>

\* send_mod_config fails on the envelope recv() returned (the client is gone): the
\* loop breaks and the receiver is dropped
RingSocketFails ==
    /\ ring.pc = "stream"
    /\ ring.next < ring.pos
    /\ broadcast_recv(ring.pos, ring.next).kind = "envelope"
    /\ ring' = [ring EXCEPT !.pc = "closed"]
    /\ UNCHANGED <<det_vars, mc_vars, al_vars, in_vars, beside_ring>>

RingNext ==
    \/ RingSubscribe
    \/ RingPublish
    \/ RingRecv
    \/ RingSocketFails

(***************************************************************************)
(* The socket bridge to the bot: spawn_napcat_ws_bridge                    *)
(***************************************************************************)
RECONNECT_DELAY_SECONDS == 5

\* str::trim on the urls of the configurations below
trim_url(s) == IF s = " wss://bot " THEN "wss://bot" ELSE s

\* the socket urls of a configuration, alert_webhook_url first, each once
resolve_ws_source_urls(config) ==
    LET alert_urls ==
            IF config.alert_webhook_url # None /\ is_ws_url(trim_url(config.alert_webhook_url[1]))
            THEN <<trim_url(config.alert_webhook_url[1])>>
            ELSE <<>>
        webhook_urls ==
            IF /\ config.webhook_url # None
               /\ is_ws_url(trim_url(config.webhook_url[1]))
               /\ \A k \in 1..Len(alert_urls) : alert_urls[k] # trim_url(config.webhook_url[1])
            THEN <<trim_url(config.webhook_url[1])>>
            ELSE <<>>
    IN  alert_urls \o webhook_urls

\* the configurations the bridge is spawned with
BridgeConfigs ==
    { [alert_webhook_url |-> a, webhook_url |-> w, alert_webhook_token |-> t] :
        a \in {None, Some("ws://bot"), Some("http://hook")},
        w \in {None, Some("ws://bot"), Some(" wss://bot ")},
        t \in {None, Some("secret")} }

\* at most two urls come out of resolve_ws_source_urls
BridgeSlots == 1 .. 2

\* the frames the bot sends on a connection: a group message that is one of the
\* issue commands, any other text, a ping, a binary frame
BridgeFrames == {"issue command", "other text", "ping", "binary"}

\* the body of the task after a failed connect or an exit of run_bridge_loop, with
\* a task that ends when the peer closed
after_exit_stop(task, reason) ==
    [task EXCEPT !.pc = IF reason = "closed by peer" THEN "stopped" ELSE "cooldown",
                 !.exit = reason, !.elapsed = 0, !.mode = ""]

\* the body of the task after a failed connect or an exit of run_bridge_loop: the
\* error is logged and the task sleeps
after_exit(task, reason) ==
    [task EXCEPT !.pc = "cooldown", !.exit = reason, !.elapsed = 0, !.mode = ""]

\* exit is the reason of the last failed connect or loop exit, elapsed the seconds
\* of the sleep that have passed, handled the last frame the loop took
NewBridgeTask(url) ==
    [url |-> url, pc |-> "connecting", mode |-> "", exit |-> "", elapsed |-> 0,
     handled |-> ""]

IdleBridge == [pc |-> "idle", token |-> None, tasks |-> <<>>]

BridgeInit == bridge = IdleBridge

BridgeRuns(i) == bridge.pc = "spawned" /\ i <= Len(bridge.tasks)

\* spawn_napcat_ws_bridge: one task per socket url, none when there is no url
SpawnBridge ==
    /\ bridge.pc = "idle"
    /\ \E config \in BridgeConfigs :
        LET ws_urls == resolve_ws_source_urls(config)
        IN  bridge' = IF ws_urls = <<>>
                      THEN [bridge EXCEPT !.pc = "disabled"]
                      ELSE [pc |-> "spawned", token |-> config.alert_webhook_token,
                            tasks |-> [k \in 1..Len(ws_urls) |-> NewBridgeTask(ws_urls[k])]]
    /\ UNCHANGED <<det_vars, mc_vars, al_vars, in_vars, beside_bridge>>

\* connect_ws returns a socket: with the Authorization header, else with the token
\* in the query, else plain
BridgeConnected(i) ==
    /\ BridgeRuns(i)
    /\ bridge.tasks[i].pc = "connecting"
    /\ \E mode \in {"header", "query", "plain"} :
        bridge' = [bridge EXCEPT !.tasks[i].pc = "loop", !.tasks[i].mode = mode]
    /\ UNCHANGED <<det_vars, mc_vars, al_vars, in_vars, beside_bridge>>

\* connect_ws returns an Err
BridgeConnectFails(i) ==
    /\ BridgeRuns(i)
    /\ bridge.tasks[i].pc = "connecting"
    /\ bridge' = [bridge EXCEPT !.tasks[i] = after_exit(@, "connect failed")]
    /\ UNCHANGED <<det_vars, mc_vars, al_vars, in_vars, beside_bridge>>

\* one turn of run_bridge_loop on a frame: an issue command is answered with a
\* send_group_msg action, a ping with a pong, and a failed send leaves the loop
BridgeFrame(i) ==
    /\ BridgeRuns(i)
    /\ bridge.tasks[i].pc = "loop"
    /\ \E frame \in BridgeFrames, sent \in BOOLEAN :
        bridge' = IF frame \in {"issue command", "ping"} /\ ~sent
                  THEN [bridge EXCEPT !.tasks[i] = after_exit(@, "send failed")]
                  ELSE [bridge EXCEPT !.tasks[i].handled = frame]
    /\ UNCHANGED <<det_vars, mc_vars, al_vars, in_vars, beside_bridge>>

\* run_bridge_loop returns on a close frame, a stream error or the end of the
\* stream
BridgeLoopExit(i) ==
    /\ BridgeRuns(i)
    /\ bridge.tasks[i].pc = "loop"
    /\ \E reason \in {"closed by peer", "stream error", "stream ended"} :
        bridge' = [bridge EXCEPT !.tasks[i] = after_exit(@, reason)]
    /\ UNCHANGED <<det_vars, mc_vars, al_vars, in_vars, beside_bridge>>

\* a second of sleep(RECONNECT_DELAY_SECONDS) passes
BridgeTick(i) ==
    /\ BridgeRuns(i)
    /\ bridge.tasks[i].pc = "cooldown"
    /\ bridge.tasks[i].elapsed < RECONNECT_DELAY_SECONDS
    /\ bridge' = [bridge EXCEPT !.tasks[i].elapsed = @ + 1]
    /\ UNCHANGED <<det_vars, mc_vars, al_vars, in_vars, beside_bridge>>

\* the sleep is over: the loop of the task calls connect_ws again
BridgeReconnect(i) ==
    /\ BridgeRuns(i)
    /\ bridge.tasks[i].pc = "cooldown"
    /\ bridge.tasks[i].elapsed = RECONNECT_DELAY_SECONDS
    /\ bridge' = [bridge EXCEPT !.tasks[i].pc = "connecting", !.tasks[i].handled = ""]
    /\ UNCHANGED <<det_vars, mc_vars, al_vars, in_vars, beside_bridge>>

BridgeSleep(i) == BridgeTick(i) \/ BridgeReconnect(i)

BridgeNext ==
    \/ SpawnBridge
    \/ \E i \in BridgeSlots :
        \/ BridgeConnected(i)
        \/ BridgeConnectFails(i)
        \/ BridgeFrame(i)
        \/ BridgeLoopExit(i)
        \/ BridgeTick(i)
        \/ BridgeReconnect(i)

\* the timer of tokio fires: a sleeping task is woken and runs on
BridgeFairness == \A i \in BridgeSlots : WF_vars(BridgeSleep(i))

(***************************************************************************)
(* The embedded start-up: start_embedded and run_embedded_with_shutdown    *)
(***************************************************************************)
\* startup_rx.recv_timeout(StdDuration::from_secs(10))
STARTUP_TIMEOUT_SECONDS == 10

\* pc is the position of the caller in start_embedded (and in BackendHandle::stop),
\* worker the position of the worker thread, startup the messages in the startup
\* channel, shutdown whether the shutdown signal was sent, listening whether the
\* listener is bound, elapsed the seconds recv_timeout has waited, outcome what
\* recv_timeout returned, result what start_embedded returned; bound_at_ok is the
\* history of whether the listener had been bound when Ok was returned
IdleBoot ==
    [pc |-> "idle", worker |-> "none", startup |-> <<>>, shutdown |-> FALSE,
     listening |-> FALSE, elapsed |-> 0, outcome |-> "", result |-> "",
     bound_at_ok |-> FALSE, was_bound |-> FALSE]

BootInit == boot = IdleBoot

\* the worker leaves with an error: it sends the message and its thread ends
worker_fails(b, message) ==
    [b EXCEPT !.worker = "exited", !.startup = Append(@, message), !.listening = FALSE]

\* start_embedded up to recv_timeout: the thread is spawned, or the spawn fails and
\* the error is returned
StartEmbedded ==
    /\ boot.pc = "idle"
    /\ \E spawned \in BOOLEAN :
        boot' = IF spawned
                THEN [boot EXCEPT !.pc = "waiting", !.worker = "runtime"]
                ELSE [boot EXCEPT !.pc = "returned", !.result = "spawn failed"]
    /\ UNCHANGED <<det_vars, mc_vars, al_vars, in_vars, beside_boot>>

\* the worker builds its runtime
WorkerRuntime ==
    /\ boot.worker = "runtime"
    /\ \E built \in BOOLEAN :
        boot' = IF built
                THEN [boot EXCEPT !.worker = "context"]
                ELSE worker_fails(boot, "runtime init failed")
    /\ UNCHANGED <<det_vars, mc_vars, al_vars, in_vars, beside_boot>>

\* AppContext::new() returns, to the worker that waits for nothing else
WorkerContext ==
    /\ boot.worker = "context"
    /\ \E built \in BOOLEAN :
        boot' = IF built
                THEN [boot EXCEPT !.worker = "bind_addr"]
                ELSE worker_fails(boot, "context init failed")
    /\ UNCHANGED <<det_vars, mc_vars, al_vars, in_vars, beside_boot>>

\* AppContext::new() panics: the thread ends and drops the sender with no message
WorkerPanics ==
    /\ boot.worker = "context"
    /\ boot' = [boot EXCEPT !.worker = "exited"]
    /\ UNCHANGED <<det_vars, mc_vars, al_vars, in_vars, beside_boot>>

\* bind_addr is parsed
WorkerParse ==
    /\ boot.worker = "bind_addr"
    /\ \E parsed \in BOOLEAN :
        boot' = IF parsed
                THEN [boot EXCEPT !.worker = "bind"]
                ELSE worker_fails(boot, "invalid bind_addr")
    /\ UNCHANGED <<det_vars, mc_vars, al_vars, in_vars, beside_boot>>

\* TcpListener::bind, and Ok(()) on the startup channel after it
WorkerBind ==
    /\ boot.worker = "bind"
    /\ \E bound \in BOOLEAN :
        boot' = IF bound
                THEN [boot EXCEPT !.worker = "serving", !.listening = TRUE,
                                  !.was_bound = TRUE, !.startup = Append(@, "ok")]
                ELSE worker_fails(boot, "failed to bind")
    /\ UNCHANGED <<det_vars, mc_vars, al_vars, in_vars, beside_boot>>

\* axum::serve ends: on the shutdown signal, or with an error of its own
WorkerServeEnds ==
    /\ boot.worker = "serving"
    /\ \E failed \in BOOLEAN : failed \/ boot.shutdown
    /\ boot' = [boot EXCEPT !.worker = "exited", !.listening = FALSE]
    /\ UNCHANGED <<det_vars, mc_vars, al_vars, in_vars, beside_boot>>

\* a second of recv_timeout passes with no message
CallerTick ==
    /\ boot.pc = "waiting"
    /\ boot.startup = <<>>
    /\ boot.elapsed < STARTUP_TIMEOUT_SECONDS
    /\ boot' = [boot EXCEPT !.elapsed = @ + 1]
    /\ UNCHANGED <<det_vars, mc_vars, al_vars, in_vars, beside_boot>>

\* recv_timeout returns the message of the worker: Ok(Ok(())) returns the handle,
\* Ok(Err(message)) sends the shutdown signal and goes on to join the worker
CallerRecv ==
    /\ boot.pc = "waiting"
    /\ boot.startup # <<>>
    /\ boot' = IF Head(boot.startup) = "ok"
               THEN [boot EXCEPT !.pc = "running", !.startup = Tail(@), !.outcome = "ok",
                                 !.result = "ok", !.bound_at_ok = boot.was_bound]
               ELSE [boot EXCEPT !.pc = "joining", !.startup = Tail(@),
                                 !.outcome = Head(boot.startup), !.shutdown = TRUE]
    /\ UNCHANGED <<det_vars, mc_vars, al_vars, in_vars, beside_boot>>

\* recv_timeout returns Err(Timeout): the shutdown signal is sent and the caller
\* goes on to join the worker
CallerTimeout ==
    /\ boot.pc = "waiting"
    /\ boot.startup = <<>>
    /\ boot.elapsed = STARTUP_TIMEOUT_SECONDS
    /\ boot' = [boot EXCEPT !.pc = "joining", !.outcome = "timeout", !.shutdown = TRUE]
    /\ UNCHANGED <<det_vars, mc_vars, al_vars, in_vars, beside_boot>>

\* recv_timeout returns Err(Disconnected): the worker ended without a message
CallerDisconnected ==
    /\ boot.pc = "waiting"
    /\ boot.startup = <<>>
    /\ boot.worker = "exited"
    /\ boot' = [boot EXCEPT !.pc = "joining", !.outcome = "disconnected", !.shutdown = TRUE]
    /\ UNCHANGED <<det_vars, mc_vars, al_vars, in_vars, beside_boot>>

\* worker.join() returns when the thread of the worker has ended, and
\* start_embedded returns the error
CallerJoin ==
    /\ boot.pc = "joining"
    /\ boot.worker = "exited"
    /\ boot' = [boot EXCEPT !.pc = "returned", !.result = boot.outcome]
    /\ UNCHANGED <<det_vars, mc_vars, al_vars, in_vars, beside_boot>>

\* BackendHandle::stop up to the join
HandleStop ==
    /\ boot.pc = "running"
    /\ boot' = [boot EXCEPT !.pc = "stopping", !.shutdown = TRUE]
    /\ UNCHANGED <<det_vars, mc_vars, al_vars, in_vars, beside_boot>>

\* the join of BackendHandle::stop returns
HandleJoin ==
    /\ boot.pc = "stopping"
    /\ boot.worker = "exited"
    /\ boot' = [boot EXCEPT !.pc = "stopped"]
    /\ UNCHANGED <<det_vars, mc_vars, al_vars, in_vars, beside_boot>>

BootNext ==
    \/ StartEmbedded
    \/ WorkerRuntime
    \/ WorkerContext
    \/ WorkerPanics
    \/ WorkerParse
    \/ WorkerBind
    \/ WorkerServeEnds
    \/ CallerTick
    \/ CallerRecv
    \/ CallerTimeout
    \/ CallerDisconnected
    \/ CallerJoin
    \/ HandleStop
    \/ HandleJoin

(***************************************************************************)
(* Specifications                                                          *)
(***************************************************************************)
\* a detector at rest, for the specifications about the other components
DetIdle ==
    /\ analyzer = EmptyAnalyzer
    /\ key_rules = EmptyMap
    /\ strict_enabled = FALSE
    /\ now = 0
    /\ anomalies = <<>>
    /\ trace = <<>>
    /\ processed = 0
    /\ recorded = {}
    /\ log = <<>>

\* a mod-config hub at rest
McIdle ==
    /\ mod_configs = EmptyMap
    /\ disk = EmptyMap
    /\ disk0 = EmptyMap
    /\ put = [p \in Puts |-> IdlePut]
    /\ returns = <<>>
    /\ sub = [s \in Subs |-> IdleSub]
    /\ inbox = [s \in Subs |-> <<>>]
    /\ received = [s \in Subs |-> <<>>]

\* an alert service that was never asked to deliver
AlIdle ==
    /\ deliveries = <<>>
    /\ history_limit = DELIVERY_HISTORY_LIMIT
    /\ tasks = [d \in Deliveries |-> IdleTask]
    /\ wall_ms = 0

\* no pull_mod_config call was made
PullIdle == pull = [c \in Pulls |-> IdlePull]

\* no update_key_items call was made, no file written
RulesIdle ==
    /\ files = NoFiles
    /\ replace = [c \in Replaces |-> IdleReplace]

\* no issue_op_token call was made, no group is allowed
TokenIdle ==
    /\ op_config = NoGroups
    /\ op_token = [t \in Issues |-> IdleIssue]

\* the config store was not asked to load anything
StoreIdle == last_load = NoLoad

\* no alert was sent in socket mode, nothing was published to the channel, no
\* bridge task was spawned, start_embedded was not called
WsIdle == ws = IdleWs
RingIdle == ring = IdleRing
BridgeIdle == bridge = IdleBridge
BootIdle == boot = IdleBoot
NetIdle == WsIdle /\ RingIdle /\ BridgeIdle /\ BootIdle

OpsIdle == PullIdle /\ RulesIdle /\ TokenIdle /\ StoreIdle /\ NetIdle

\* an ingest pipeline that never received a request
InIdle ==
    /\ ingest = [i \in Requests |-> IdleRequest]
    /\ analyzer_lock = 0
    /\ metrics = ZeroMetrics
    /\ event_repo = <<>>
    /\ anomaly_repo = <<>>

DetNext == AnalyzeBatch

\* each specification runs one subsystem, the others at rest; the ingest
\* pipeline runs together with the detector and the alert service it calls
DetectorInit == DetInit /\ McIdle /\ AlIdle /\ InIdle /\ OpsIdle
ModConfigInit == McInit /\ DetIdle /\ AlIdle /\ InIdle /\ OpsIdle
AlertsInit == AlInit /\ DetIdle /\ McIdle /\ InIdle /\ OpsIdle
IngestInit == InInit /\ McIdle /\ OpsIdle
\* the window bounds are met without key-item rules and without strict mode
WindowsInit == DetInit /\ key_rules = EmptyMap /\ ~strict_enabled /\ McIdle /\ AlIdle /\ InIdle /\ OpsIdle

SpecDetector == DetectorInit /\ [][DetNext]_vars

SpecModConfig == ModConfigInit /\ [][McNext]_vars

SpecModConfigSeq == ModConfigInit /\ [][McSeqNext]_vars

SpecAlerts == AlertsInit /\ [][AlNext]_vars /\ AlFairness

SpecIngest == IngestInit /\ [][InNext]_vars

SpecWindows == WindowsInit /\ [][AnalyzeWindows]_vars

\* the window sums are met with and without a key-item rule, with and without
\* strict mode
SumsInit ==
    /\ DetInit
    /\ key_rules \in {EmptyMap, [i \in {"mod:gem"} |-> Rule(Some(2), None, Some("high"), None)]}
    /\ McIdle /\ AlIdle /\ InIdle /\ OpsIdle

SpecSums == SumsInit /\ [][AnalyzeSums]_vars

SpecSnapshots == DetectorInit /\ [][AnalyzeSnapshots]_vars

SpecPull == ModConfigInit /\ [][PullNext]_vars

KeyRulesInit ==
    RulesInit /\ McIdle /\ AlIdle /\ InIdle /\ PullIdle /\ TokenIdle /\ StoreIdle /\ NetIdle

SpecKeyRules == KeyRulesInit /\ [][RulesNext]_vars

OpTokenInit ==
    TokenInit /\ DetIdle /\ AlIdle /\ InIdle /\ PullIdle /\ RulesIdle /\ StoreIdle /\ NetIdle

SpecOpToken == OpTokenInit /\ [][TokenNext]_vars

ConfigStoreInit ==
    StoreInit /\ DetIdle /\ McIdle /\ AlIdle /\ InIdle /\ PullIdle /\ TokenIdle
        /\ replace = [c \in Replaces |-> IdleReplace] /\ NetIdle

SpecStore == ConfigStoreInit /\ [][StoreNext]_vars

WsSendInit ==
    WsInit /\ DetIdle /\ McIdle /\ AlIdle /\ InIdle /\ PullIdle /\ RulesIdle /\ TokenIdle
        /\ StoreIdle /\ RingIdle /\ BridgeIdle /\ BootIdle

SpecWsSend == WsSendInit /\ [][WsNext]_vars

ChannelInit ==
    RingInit /\ DetIdle /\ McIdle /\ AlIdle /\ InIdle /\ PullIdle /\ RulesIdle /\ TokenIdle
        /\ StoreIdle /\ WsIdle /\ BridgeIdle /\ BootIdle

SpecChannel == ChannelInit /\ [][RingNext]_vars

BridgeOnlyInit ==
    BridgeInit /\ DetIdle /\ McIdle /\ AlIdle /\ InIdle /\ PullIdle /\ RulesIdle /\ TokenIdle
        /\ StoreIdle /\ WsIdle /\ RingIdle /\ BootIdle

SpecBridge == BridgeOnlyInit /\ [][BridgeNext]_vars /\ BridgeFairness

StartupInit ==
    BootInit /\ DetIdle /\ McIdle /\ AlIdle /\ InIdle /\ PullIdle /\ RulesIdle /\ TokenIdle
        /\ StoreIdle /\ WsIdle /\ RingIdle /\ BridgeIdle

SpecStartup == StartupInit /\ [][BootNext]_vars

(***************************************************************************)
(* Claims about the detector                                               *)
(***************************************************************************)
RuleIds(out) == {out[k].rule_id : k \in DOMAIN out}
CountOf(out, rule_id) == Cardinality({k \in DOMAIN out : out[k].rule_id = rule_id})
Suppressed == {"R1", "R2", "R5", "R6", "R7", "R8", "R10"}

\* the detector takes the event into account (step 1 of the loop lets it through)
Accepted(e) == e.item_id \notin {"", " ", "minecraft:air"} /\ e.count > 0

PlayerOf(e) == IF e.player_uuid = <<>> THEN "" ELSE e.player_uuid[1]
FingerprintOf(e) ==
    IF e.item_fingerprint = <<>>
    THEN e.item_id \o ":" \o (IF e.nbt_hash = <<>> THEN "" ELSE e.nbt_hash[1])
    ELSE e.item_fingerprint[1]

\* TRANSFER event x and ACQUIRE event e agree on player, fingerprint and count, and
\* their times are at most transfer_window_ms apart
SameTransfer(x, e) ==
    /\ x.event_type = "TRANSFER" /\ e.event_type = "ACQUIRE"
    /\ PlayerOf(x) = PlayerOf(e)
    /\ FingerprintOf(x) = FingerprintOf(e)
    /\ x.count = e.count
    /\ e.event_time - x.event_time <= transfer_window_ms
    /\ x.event_time - e.event_time <= transfer_window_ms

\* the cache holds a record that matches ACQUIRE event e
CachedMatch(cache, e) ==
    \E k \in DOMAIN cache :
        /\ cache[k].player_uuid = PlayerOf(e)
        /\ cache[k].item_fingerprint = FingerprintOf(e)
        /\ cache[k].count = e.count
        /\ e.event_time - cache[k].time_ms <= transfer_window_ms
        /\ cache[k].time_ms - e.event_time <= transfer_window_ms

\* C1 as stated: an ACQUIRE that follows a matching TRANSFER (one the detector
\* recorded), in the same batch or in a later one, emits none of R1, R2, R5, R6,
\* R7, R8, R10.
C1_Original ==
    \A i \in DOMAIN trace :
        LET e == trace[i].event
            earlier == recorded \cup {trace[j].event : j \in 1 .. (i - 1)}
        IN  (\E x \in earlier : Accepted(x) /\ SameTransfer(x, e))
                => RuleIds(trace[i].out) \cap Suppressed = {}

\* C1 amended: an ACQUIRE processed while transfer_cache holds a matching record
\* emits none of R1, R2, R5, R6, R7, R8, R10; the cache holds the record of every
\* TRANSFER recorded earlier in the same batch, and the record of an earlier batch
\* as long as no cleanup pass evicted it.
C1_Amended ==
    \A i \in DOMAIN trace :
        LET e == trace[i].event
        IN  /\ (e.event_type = "ACQUIRE" /\ CachedMatch(trace[i].pre.transfer_cache, e))
                => RuleIds(trace[i].out) \cap Suppressed = {}
            /\ (\E j \in 1 .. (i - 1) : Accepted(trace[j].event) /\ SameTransfer(trace[j].event, e))
                => RuleIds(trace[i].out) \cap Suppressed = {}

\* an ACQUIRE without origin met the record of a TRANSFER of an earlier batch, at
\* the very edge of the transfer window, and was let through with R0 alone
C1_Witness ==
    \E i \in DOMAIN trace :
        LET e == trace[i].event
        IN  /\ e.event_type = "ACQUIRE" /\ e.origin_id = <<>>
            /\ \A j \in 1 .. (i - 1) : trace[j].event.event_type # "TRANSFER"
            /\ \E x \in recorded : SameTransfer(x, e)
                                   /\ e.event_time - x.event_time = transfer_window_ms
            /\ CachedMatch(trace[i].pre.transfer_cache, e)
            /\ RuleIds(trace[i].out) = {"R0"}

\* C2: every ACQUIRE with a transfer match yields exactly one R0, of risk LOW,
\* whatever rule exists for its item.
C2_Claim ==
    \A i \in DOMAIN trace :
        LET e == trace[i].event
            out == trace[i].out
        IN  (e.event_type = "ACQUIRE" /\ Accepted(e)
             /\ CachedMatch(trace[i].pre.transfer_cache, e))
                => /\ CountOf(out, "R0") = 1
                   /\ \A k \in DOMAIN out : out[k].rule_id = "R0" => out[k].risk_level = "LOW"

\* the threshold and the risk level a rule stands for
ThresholdOf(rule) ==
    IF rule.threshold # <<>> THEN rule.threshold[1]
    ELSE IF rule.max_per_10m # <<>> THEN rule.max_per_10m[1] ELSE 0
RiskOf(rule) ==
    IF rule.risk_level = <<>>
    THEN (IF rule.weight # <<>> /\ rule.weight[1] >= 8 THEN "HIGH" ELSE "MEDIUM")
    ELSE CASE rule.risk_level[1] = "high" -> "HIGH"
           [] rule.risk_level[1] = " low " -> "LOW"
           [] rule.risk_level[1] = " " -> "MEDIUM"
           [] OTHER -> rule.risk_level[1]

\* the key-item window of e's key after e: the old window with e.count timestamps
\* appended, less its leading timestamps older than key_item_window_ms
WindowWith(old, e) == old \o [k \in 1 .. e.count |-> e.event_time]
FirstKept(w, e) ==
    IF \E k \in DOMAIN w : e.event_time - w[k] <= key_item_window_ms
    THEN CHOOSE k \in DOMAIN w :
            /\ e.event_time - w[k] <= key_item_window_ms
            /\ \A m \in 1 .. (k - 1) : e.event_time - w[m] > key_item_window_ms
    ELSE Len(w) + 1
ExpectedWindow(old, e) ==
    LET w == WindowWith(old, e) IN SubSeq(w, FirstKept(w, e), Len(w))
Sorted(w) == \A a, b \in DOMAIN w : a < b => w[a] <= w[b]
InWindow(w, e) == Cardinality({k \in DOMAIN w : e.event_time - w[k] <= key_item_window_ms})

Rank(rule_id) ==
    CASE rule_id = "R1" -> 1 [] rule_id = "R2" -> 2 [] rule_id = "R3" -> 3
      [] rule_id = "R5" -> 4 [] rule_id = "R8" -> 5 [] rule_id = "R6" -> 6
      [] rule_id = "R10" -> 7 [] rule_id = "R7" -> 8 [] rule_id = "R4" -> 9
      [] rule_id = "R0" -> 10 [] OTHER -> 0

RECURSIVE Flatten(_)
Flatten(tr) == IF tr = <<>> THEN <<>> ELSE Head(tr).out \o Flatten(Tail(tr))

\* the anomalies of each event are in the listed order, and those of an earlier
\* event precede those of a later one
EmissionOrder ==
    /\ anomalies = Flatten(trace)
    /\ \A i \in DOMAIN trace :
           \A a, b \in DOMAIN trace[i].out :
               a < b => Rank(trace[i].out[a].rule_id) < Rank(trace[i].out[b].rule_id)

\* C4 as stated: the order, and every anomaly carries its event's event_time.
C4_Original ==
    /\ EmissionOrder
    /\ \A i \in DOMAIN trace : \A k \in DOMAIN trace[i].out :
           trace[i].out[k].event_time = trace[i].event.event_time

\* C4 amended: the order, and every anomaly of an event whose event_time is a
\* representable UTC datetime carries that event_time (beyond the range it carries
\* the wall-clock time instead).
C4_Amended ==
    /\ EmissionOrder
    /\ \A i \in DOMAIN trace : \A k \in DOMAIN trace[i].out :
           LET t == trace[i].event.event_time
           IN  /\ (t <= MaxUtcMs /\ 0 - t <= MaxUtcMs) => trace[i].out[k].event_time = t
               /\ (t > MaxUtcMs \/ 0 - t > MaxUtcMs) => trace[i].out[k].event_time = now

\* a batch of two events that both emitted several anomalies
C4_Witness ==
    /\ Len(trace) = 2
    /\ Len(trace[1].out) >= 2
    /\ Len(trace[2].out) >= 3
    /\ trace[1].out # trace[2].out
    /\ anomalies = trace[1].out \o trace[2].out


(***************************************************************************)
(* Claims about the mod-config hub                                         *)
(***************************************************************************)
RevisionOf(envelopes, server_id) ==
    IF server_id \in DOMAIN envelopes THEN envelopes[server_id].revision ELSE 0

\* the envelope get and pull answer with: the cached one, else the persisted one
CurrentRevision(server_id) ==
    IF server_id \in DOMAIN mod_configs THEN mod_configs[server_id].revision
    ELSE RevisionOf(disk, server_id)

ReturnsOf(server_id) == SelectSeq(returns, LAMBDA e : e.server_id = server_id)

\* C5: the revisions a subscriber receives never decrease, whatever the
\* interleaving of the puts.
C5_Claim ==
    \A s \in Subs : \A a, b \in DOMAIN received[s] :
        a < b => received[s][a].revision <= received[s][b].revision

\* C6: no two successful puts of one server return the same revision.
C6_Claim ==
    \A a, b \in DOMAIN returns :
        (a < b /\ returns[a].server_id = returns[b].server_id)
            => returns[a].revision # returns[b].revision

\* C7: the revision of a server's current envelope, cached or persisted, never
\* decreases.
C7_Claim ==
    [][\A server_id \in Servers :
           /\ CurrentRevision(server_id)' >= CurrentRevision(server_id)
           /\ RevisionOf(disk, server_id)' >= RevisionOf(disk, server_id)]_vars

\* C8: puts of a server that run one after another return revision 1 for the first
\* write (the revision of the file the service started with, + 1, when there is
\* one) and the revision the put before returned + 1 for every later one, hence
\* strictly increasing revisions.
C8_Sequential ==
    \A server_id \in Servers :
        LET rs == ReturnsOf(server_id)
        IN  \A k \in DOMAIN rs :
                /\ rs[k].server_id = server_id
                /\ rs[k].revision = (IF k = 1 THEN RevisionOf(disk0, server_id)
                                     ELSE rs[k - 1].revision) + 1
                /\ (k = 1 /\ server_id \notin DOMAIN disk0) => rs[k].revision = 1

\* what the socket of subscriber s was sent so far: the initial envelope, then
\* the envelopes recv() returned
Sent(s) == (IF sub[s].initial = None THEN <<>> ELSE <<sub[s].initial[1]>>) \o received[s]
\* the envelopes published for the server of s after its subscribe(), in
\* publication order
PublishedSince(s) ==
    SelectSeq(SubSeq(returns, sub[s].since + 1, Len(returns)),
              LAMBDA e : e.server_id = sub[s].server_id)
\* the envelopes published for the server of s before its subscribe()
PublishedBefore(s) ==
    SelectSeq(SubSeq(returns, 1, sub[s].since), LAMBDA e : e.server_id = sub[s].server_id)
Revisions(envelopes) == [i \in DOMAIN envelopes |-> envelopes[i].revision]
Streaming == {s \in Subs : sub[s].pc = "stream"}

\* C21 as stated: a streaming subscriber is sent every envelope published for its
\* server after it connected, in publication order and each exactly once: the
\* initial envelope is not one of those the channel delivers as well.
C21_Original ==
    \A s \in Streaming :
        /\ received[s] \o inbox[s] = PublishedSince(s)
        /\ sub[s].initial # None =>
              \A k \in DOMAIN PublishedSince(s) : PublishedSince(s)[k] # sub[s].initial[1]

\* C21: the channel delivers every envelope published for the server after
\* subscribe(), in publication order and each once; the initial envelope is read
\* after subscribe(), from the cache or else from the file, so a put that
\* publishes between subscribe() and that read is sent twice (as initial envelope
\* and from the channel).  A subscriber of a server without file whose
\* subscribe() and initial read both fall between the first put and the second
\* is sent the revisions 1, 2.
C21_Amended ==
    /\ [](\A s \in Subs :
             /\ HasReceiver(s, sub[s].server_id) =>
                   received[s] \o inbox[s] = PublishedSince(s)
             /\ (/\ s \in Streaming
                 /\ sub[s].server_id \notin DOMAIN disk0
                 /\ Len(PublishedBefore(s)) = 1
                 /\ sub[s].initial = Some(PublishedBefore(s)[1])
                 /\ Len(PublishedSince(s)) = 1
                 /\ inbox[s] = <<>>)
                    => Revisions(Sent(s)) = <<1, 2>>)
    /\ [][\A s \in Subs :
             /\ (sub[s].pc = "get" /\ sub'[s].pc # "get") =>
                   sub'[s].initial = cache_get(mod_configs, sub[s].server_id)
             /\ (sub[s].pc = "load" /\ sub'[s].pc \in {"insert", "stream"}) =>
                   sub'[s].loaded = cache_get(disk, sub[s].server_id)
             /\ (sub[s].pc = "insert" /\ sub'[s].pc = "stream") =>
                   sub'[s].initial = sub[s].loaded]_vars

\* the subscriber connected between the first and the second put of s1 and was
\* sent revision 1 as initial envelope and revision 2 from the channel
C21_Witness ==
    \E s \in Streaming :
        /\ sub[s].server_id \notin DOMAIN disk0
        /\ Len(PublishedBefore(s)) = 1
        /\ sub[s].initial = Some(PublishedBefore(s)[1])
        /\ Len(received[s]) = 1
        /\ Revisions(Sent(s)) = <<1, 2>>

(***************************************************************************)
(* Claims about the alert delivery service                                 *)
(***************************************************************************)
Last(seq) == seq[Len(seq)]

Recorded(d) == tasks[d].record # None

\* C9: a delivery makes at most 3 attempts and stops at the first success; the
\* record of a delivery whose attempt k succeeded first has attempts = k, status
\* "success" and no error; the record of one whose 3 attempts failed has
\* attempts = 3, status "failed" and the error text of the last attempt; its
\* rule_ids are in ascending order without duplicates.
C9_Retry ==
    \A d \in Deliveries :
        LET outcomes == tasks[d].outcomes
        IN  /\ Len(outcomes) <= 3
            /\ \A k \in DOMAIN outcomes : k < Len(outcomes) => outcomes[k] # Ok
            /\ Recorded(d) =>
                 LET record == tasks[d].record[1]
                     ids == record.rule_ids
                 IN  /\ outcomes # <<>>
                     /\ record.attempts = Len(outcomes)
                     /\ IF Last(outcomes) = Ok
                        THEN record.status = "success" /\ record.error = None
                        ELSE /\ record.attempts = 3
                             /\ record.status = "failed"
                             /\ record.error = Some(Last(outcomes))
                     /\ \A i, j \in DOMAIN ids : i < j => str_lt(ids[i], ids[j])
                     /\ {ids[i] : i \in DOMAIN ids}
                            = {tasks[d].alerts[i].rule_id : i \in DOMAIN tasks[d].alerts}

\* two failures of different texts, then a success, for alerts of R12, R4, R10, R4
C9_Witness ==
    \E d \in Deliveries :
        /\ Recorded(d)
        /\ tasks[d].outcomes = <<"timeout", "status 500", Ok>>
        /\ tasks[d].slept = <<400, 800>>
        /\ Len(tasks[d].alerts) = 4
        /\ tasks[d].record[1].alert_count = 4
        /\ tasks[d].record[1].mode = "http"
        /\ tasks[d].record[1].attempts = 3
        /\ tasks[d].record[1].status = "success"
        /\ tasks[d].record[1].rule_ids = <<"R10", "R12", "R4">>
        /\ Last(deliveries) = tasks[d].record[1]

Spawned(d) == tasks[d].pc \in {"send", "sleep", "record"}

\* C10: a delivery spawned with at least one eligible anomaly terminates, and it
\* appends exactly one record to the history, when it ends; no attempt before
\* its last one writes a record.
C10_Terminates ==
    /\ \A d \in Deliveries :
          (tasks[d].pc = "send") ~> (tasks[d].pc = "done" /\ tasks[d].written = 1)
    /\ [](\A d \in Deliveries :
            /\ Spawned(d) => tasks[d].written = 0
            /\ tasks[d].pc = "done" => tasks[d].written = 1 /\ tasks[d].alerts # <<>>
            /\ tasks[d].pc \in {"unspawned", "returned"} => tasks[d].written = 0)
    /\ [][\A d \in Deliveries :
            IF tasks[d].written' # tasks[d].written
            THEN /\ tasks[d].pc = "record"
                 /\ deliveries' # <<>>
                 /\ Last(deliveries') = tasks'[d].record[1]
            ELSE tasks'[d].pc = tasks[d].pc \/ tasks[d].pc # "record"]_vars

\* both deliveries ended after three failed attempts each, the second one first
C10_Witness ==
    /\ \A d \in Deliveries : tasks[d].pc = "done" /\ tasks[d].written = 1
    /\ Len(tasks[1].outcomes) = 3 /\ Last(tasks[1].outcomes) # Ok
    /\ tasks[2].record[1].timestamp_ms < tasks[1].record[1].timestamp_ms
    /\ history_limit = DELIVERY_HISTORY_LIMIT
    /\ Len(deliveries) = MaxDeliveries


\* the deliveries that have completed, and their records in completion order: wall_ms
\* counts the completions, so a record's timestamp_ms is its rank
DoneDeliveries == {d \in Deliveries : tasks[d].pc = "done"}
Completed ==
    [i \in 1 .. Cardinality(DoneDeliveries) |->
        tasks[CHOOSE d \in DoneDeliveries :
                  tasks[d].record[1].timestamp_ms = i - 1].record[1]]
ListLimits == {0, 1, 2, 3, DELIVERY_HISTORY_LIMIT, DELIVERY_HISTORY_LIMIT + 1}

\* C11: after N completed deliveries the history holds the min(N, history_limit)
\* most recently completed records, in completion order, and history_limit is 200
\* for the default service; list_alert_deliveries returns them newest first, at
\* most max(limit, 1) of them, and last_alert_delivery returns the newest.
C11_History ==
    LET n == Cardinality(DoneDeliveries)
        kept == Min(n, history_limit)
    IN  /\ history_limit \in {1, 200}
        /\ \A d \in DoneDeliveries : tasks[d].record[1].timestamp_ms \in 0 .. (n - 1)
        /\ Len(deliveries) = kept
        /\ deliveries = SubSeq(Completed, n - kept + 1, n)
        /\ last_alert_delivery(deliveries)
              = (IF n = 0 THEN None ELSE Some(Completed[n]))
        /\ \A limit \in ListLimits :
              LET listed == list_alert_deliveries(deliveries, history_limit, limit)
              IN  /\ Len(listed) = Min(Max(limit, 1), kept)
                  /\ \A i \in DOMAIN listed : listed[i] = Completed[n - i + 1]

\* a history of one record: the delivery spawned second completed first, and its
\* record was evicted when the delivery spawned first completed
C11_Witness ==
    /\ history_limit = 1
    /\ DoneDeliveries = Deliveries
    /\ tasks[2].record[1].timestamp_ms = 0
    /\ tasks[1].record[1].timestamp_ms = MaxDeliveries - 1
    /\ deliveries = <<tasks[1].record[1]>>
    /\ tasks[1].record[1] # tasks[2].record[1]
    /\ list_alert_deliveries(deliveries, history_limit, 2) = <<tasks[1].record[1]>>

Eligible(batch) == SelectSeq(batch, LAMBDA row : row.rule_id \in {"R4", "R10", "R12"})

\* C12: a delivery sends the anomalies of its batch whose rule_id is R4, R10 or
\* R12, in batch order; its record counts them and lists their rule ids; a batch
\* without such an anomaly makes no send attempt and writes no record.
C12_Filter ==
    /\ \A d \in Deliveries :
          /\ tasks[d].alerts = Eligible(tasks[d].batch)
          /\ tasks[d].pc = "returned" <=>
                (tasks[d].pc # "unspawned" /\ Eligible(tasks[d].batch) = <<>>)
          /\ tasks[d].pc = "returned" =>
                tasks[d].outcomes = <<>> /\ tasks[d].written = 0 /\ tasks[d].record = None
          /\ tasks[d].record # None =>
                LET record == tasks[d].record[1]
                    ids == {Eligible(tasks[d].batch)[i].rule_id :
                               i \in DOMAIN Eligible(tasks[d].batch)}
                IN  /\ record.alert_count = Len(Eligible(tasks[d].batch))
                    /\ {record.rule_ids[i] : i \in DOMAIN record.rule_ids} = ids
    /\ Len(deliveries) <= Cardinality({d \in Deliveries : tasks[d].record # None})

\* one call with R12, R4, R0, R10, R4 was delivered as four alerts, one call with
\* R0 alone returned at once
C12_Witness ==
    \E d, e \in Deliveries :
        /\ tasks[d].pc = "done"
        /\ Len(tasks[d].batch) = 5
        /\ tasks[d].record[1].alert_count = 4
        /\ tasks[d].record[1].rule_ids = <<"R10", "R12", "R4">>
        /\ tasks[e].pc = "returned"
        /\ tasks[e].batch = Rows(<<"R0">>)
        /\ Len(deliveries) = 1


(***************************************************************************)
(* Claims about the ingest pipeline                                        *)
(***************************************************************************)
\* the requests inside analyze_batch, i.e. holding the guard of the detector
Analyzing == {i \in Requests : ingest[i].pc = "analyze"}

\* C13: at most one analyze_batch executes at a time, and the detector mutex is
\* held only during the analysis: the request holding it has persisted its events
\* and has neither persisted its anomalies nor dispatched its alerts yet.
C13_Mutex ==
    /\ Cardinality(Analyzing) <= 1
    /\ \A i \in Requests : (analyzer_lock = i) <=> (i \in Analyzing)
    /\ \A i \in Analyzing :
          /\ ingest[i].persisted
          /\ \E k \in DOMAIN event_repo : event_repo[k] = ingest[i].events
          /\ ingest[i].inserted = None
          /\ tasks[i].pc = "unspawned"
    /\ \A i \in Requests :
          (ingest[i].inserted # None \/ tasks[i].pc # "unspawned")
              => (ingest[i].analyzed /\ analyzer_lock # i)

\* one request analyses while another one, its events persisted, waits for the
\* mutex
C13_Witness ==
    \E i, j \in Requests :
        /\ analyzer_lock = i
        /\ ingest[i].pc = "analyze"
        /\ ingest[j].pc = "lock"
        /\ ingest[j].persisted


\* the requests whose event persistence failed
Failed == {i \in Requests : ingest[i].response = Some("Internal")}

\* C14: a request whose insert_events fails returns an Internal error; the step
\* that fails adds exactly 1 to ingest_errors and changes no other counter, no
\* detector state, no stored batch and no delivery task; such a request never ran
\* the detector and never spawned an alert.
C14_EventFailure ==
    /\ [](\A i \in Failed :
              /\ ingest[i].pc = "done"
              /\ ~ingest[i].persisted /\ ~ingest[i].analyzed
              /\ ingest[i].anomalies = <<>>
              /\ tasks[i].pc = "unspawned")
    /\ [](metrics.ingest_errors = Cardinality(Failed))
    /\ [][\A i \in Requests :
              (ingest[i].pc = "insert_events" /\ ingest'[i].pc = "done")
                  => /\ ingest'[i].response = Some("Internal")
                     /\ metrics' = [metrics EXCEPT !.ingest_errors = @ + 1]
                     /\ UNCHANGED <<det_vars, al_vars, analyzer_lock, event_repo,
                                    anomaly_repo>>]_vars

\* one request failed at insert_events after another one was counted as ingested
\* with an anomaly
C14_Witness ==
    \E i, j \in Requests :
        /\ i \in Failed
        /\ ingest[j].response = Some("OK")
        /\ metrics.ingest_errors = 1
        /\ metrics.ingest_requests = 1
        /\ metrics.anomalies >= 1


\* the sum of f over the requests of S
RECURSIVE SumOver(_, _)
SumOver(f, S) ==
    IF S = {} THEN 0
    ELSE LET i == CHOOSE j \in S : TRUE IN f[i] + SumOver(f, S \ {i})

\* the requests past record_anomalies / spawn_alerts, and the requests that returned Ok
Dispatched == {i \in Requests : ingest[i].analyzed /\ ingest[i].pc \in {"record_ingest", "done"}}
Succeeded == {i \in Requests : ingest[i].response = Some("OK")}

\* C15: a request whose events were persisted runs to the end and returns Ok,
\* whatever insert_anomalies returned; its anomalies are counted in anomalies_total
\* and handed to spawn_alerts even when their insert failed, and the return waits
\* for no step of the delivery task.
C15_Success ==
    /\ \A i \in Requests :
          /\ ingest[i].persisted =>
                /\ ingest[i].pc \in {"lock", "analyze", "insert_anomalies", "record_anomalies",
                                     "record_ingest", "done"}
                /\ ingest[i].pc = "done" => ingest[i].response = Some("OK")
          /\ ingest[i].inserted # None =>
                ingest[i].pc \in {"record_anomalies", "record_ingest", "done"}
          /\ (i \in Dispatched /\ ingest[i].anomalies # <<>>) =>
                /\ tasks[i].pc # "unspawned"
                /\ tasks[i].batch = ingest[i].anomalies
                /\ tasks[i].alerts = Eligible(ingest[i].anomalies)
          /\ ingest[i].pc = "record_ingest" => ENABLED RecordIngest(i)
    /\ metrics.anomalies = SumOver([i \in Requests |-> Len(ingest[i].anomalies)], Dispatched)

\* a request returned Ok although its anomaly insert failed; its anomaly is counted
\* and its delivery task has not made its first send attempt yet
C15_Witness ==
    \E i \in Requests :
        /\ ingest[i].response = Some("OK")
        /\ ingest[i].inserted = Some(FALSE)
        /\ anomaly_repo = <<>>
        /\ metrics.anomalies = Len(ingest[i].anomalies)
        /\ tasks[i].pc = "send"
        /\ tasks[i].outcomes = <<>>


\* no request is under way
Quiescent == \A i \in Requests : ingest[i].pc \in {"idle", "done"}

\* C16: ingest_requests is the number of requests that returned Ok and
\* ingest_events the sum of the sizes of their batches; once no request is under
\* way, anomalies_total is the sum of the numbers of anomalies the detector
\* returned to them; two requests with the same batch count its size twice.
C16_Counters ==
    /\ metrics.ingest_requests = Cardinality(Succeeded)
    /\ metrics.ingest_events = SumOver([i \in Requests |-> Len(ingest[i].events)], Succeeded)
    /\ Quiescent =>
          metrics.anomalies = SumOver([i \in Requests |-> Len(ingest[i].anomalies)], Succeeded)
    /\ \A i, j \in Succeeded :
          (i # j /\ ingest[i].events = ingest[j].events) =>
              metrics.ingest_events
                  = 2 * Len(ingest[i].events)
                      + SumOver([k \in Requests |-> Len(ingest[k].events)], Succeeded \ {i, j})

\* the same batch of one event was processed twice: two requests, two events,
\* and the anomalies of both
C16_Witness ==
    /\ Quiescent
    /\ Succeeded = {1, 2}
    /\ ingest[1].events = ingest[2].events
    /\ Len(ingest[1].events) = 1
    /\ metrics.ingest_requests = 2
    /\ metrics.ingest_events = 2
    /\ metrics.anomalies = Len(ingest[1].anomalies) + Len(ingest[2].anomalies)
    /\ metrics.anomalies >= 2
    /\ metrics.ingest_errors = 0


\* a body that is empty or holds only events with a blank item_id, minecraft:air
\* or a count <= 0
OnlyInvalid(body) ==
    \A k \in DOMAIN body :
        \/ body[k].item_id \in {"", " "}
        \/ body[k].item_id = "minecraft:air"
        \/ body[k].count <= 0

\* C17: a request whose batch is empty or holds only invalid events ends in the
\* step that receives it: that step changes no detector state, no counter, no
\* stored batch and no delivery task, and the request never reaches persistence,
\* the detector or spawn_alerts.
C17_InvalidBatch ==
    /\ [](\A i \in Requests :
              (ingest[i].pc # "idle" /\ OnlyInvalid(ingest[i].body)) =>
                  /\ ingest[i].pc = "done"
                  /\ ingest[i].response \in {Some("NO_CONTENT"), Some("Unauthorized"),
                                             Some("BadRequest")}
                  /\ ingest[i].events = <<>> /\ ingest[i].anomalies = <<>>
                  /\ ~ingest[i].persisted /\ ~ingest[i].analyzed
                  /\ ingest[i].inserted = None
                  /\ tasks[i].pc = "unspawned")
    /\ [][\A i \in Requests :
              (ingest[i].pc = "idle" /\ ingest'[i].pc # "idle" /\ OnlyInvalid(ingest'[i].body))
                  => UNCHANGED <<det_vars, al_vars, analyzer_lock, metrics, event_repo,
                                 anomaly_repo>>]_vars

\* a request of two invalid events was answered 204 after another request had
\* been ingested: the counters and the stores show the other request only
C17_Witness ==
    \E i, j \in Requests :
        /\ j < i
        /\ Len(ingest[i].body) = 2
        /\ ingest[i].response = Some("NO_CONTENT")
        /\ ingest[j].response = Some("OK")
        /\ metrics.ingest_requests = 1
        /\ metrics.ingest_events = Len(ingest[j].events)
        /\ event_repo = <<ingest[j].events>>
        /\ processed = Len(ingest[j].events)


\* ACQUIRE event e, taken into account by the detector, has an empty origin_id
Unsourced(e) ==
    e.event_type = "ACQUIRE" /\ Accepted(e) /\ e.origin_id \in {None, Some("")}

\* request i is a batch of one ACQUIRE with empty origin_id and no origin_type that
\* met no matching transfer record, for an item without rule
LoneUnsourced(i) ==
    /\ ingest[i].analyzed
    /\ Len(ingest[i].events) = 1
    /\ Unsourced(ingest[i].events[1])
    /\ ingest[i].events[1].origin_type \in {None, Some("")}
    /\ ingest[i].events[1].item_id \notin DOMAIN key_rules
    /\ ~CachedMatch(ingest[i].trace[1].pre.transfer_cache, ingest[i].events[1])

\* every unsourced ACQUIRE that met no matching transfer record emitted R1 at HIGH
R1Emitted ==
    \A i \in Requests : \A k \in DOMAIN ingest[i].trace :
        LET t == ingest[i].trace[k]
        IN  (Unsourced(t.event) /\ ~CachedMatch(t.pre.transfer_cache, t.event)) =>
                \E a \in DOMAIN t.out :
                    t.out[a].rule_id = "R1" /\ t.out[a].risk_level = "HIGH"

\* request i yielded the one anomaly R1 and, once returned, counts for one event
\* and one anomaly
OneR1(i) ==
    /\ Len(ingest[i].anomalies) = 1
    /\ ingest[i].anomalies[1].rule_id = "R1"
    /\ ingest[i].anomalies[1].risk_level = "HIGH"
    /\ i \in Succeeded =>
          metrics.ingest_events
              = 1 + SumOver([k \in Requests |-> Len(ingest[k].events)], Succeeded \ {i})
    /\ (i \in Succeeded /\ Quiescent) =>
          metrics.anomalies
              = 1 + SumOver([k \in Requests |-> Len(ingest[k].anomalies)], Succeeded \ {i})

\* C20 as stated: an ACQUIRE with empty origin_id and no transfer match emits R1
\* at HIGH, and a batch of one such event, without origin_type and without rule
\* for its item, yields exactly that anomaly and adds 1 to ingest_events and 1 to
\* anomalies_total.
C20_Original ==
    /\ R1Emitted
    /\ \A i \in Requests : LoneUnsourced(i) => OneR1(i)

\* C20: the same, for an event that is no world pickup (its storage_id is not
\* "world"); a world pickup may emit R6 besides R1.
C20_Amended ==
    /\ R1Emitted
    /\ \A i \in Requests :
          (LoneUnsourced(i) /\ ingest[i].events[1].storage_id # Some("world")) => OneR1(i)

\* the batch of scenario S1 was ingested after another request: one R1, and the
\* counters went up by one event and one anomaly
C20_Witness ==
    \E i \in Requests :
        /\ LoneUnsourced(i)
        /\ ingest[i].events[1].storage_id = None
        /\ i \in Succeeded /\ Quiescent
        /\ Succeeded # {i}
        /\ RuleIds(ingest[i].anomalies) = {"R1"}
        /\ metrics.ingest_events > 1


(***************************************************************************)
(* Claims about the windows of the detector                                *)
(***************************************************************************)
OriginOf(e) == IF e.origin_id = <<>> THEN "" ELSE e.origin_id[1]
WorldPickup(e) == e.origin_type = Some("world_pickup") \/ e.storage_id = Some("world")

\* the entries of the log that are ACQUIRE events the detector took into account
Acquired == {k \in DOMAIN log : log[k].event.event_type = "ACQUIRE" /\ Accepted(log[k].event)}
\* entry k met a matching transfer record
Matched(k) == CachedMatch(log[k].pre.transfer_cache, log[k].event)
\* the entries before k that carry the origin_id of entry k
SeenBefore(k) ==
    {j \in Acquired : j < k /\ OriginOf(log[j].event) = OriginOf(log[k].event)}
\* the latest of them
LastSeen(k) == CHOOSE j \in SeenBefore(k) : \A i \in SeenBefore(k) : i <= j

\* C18: an ACQUIRE whose non-empty origin_id was last seen with prev_player at
\* prev_time, D = |event_time - prev_time|, emits R3 iff prev_player is another
\* player and D < 10000; R5 iff it is the same player, the event is a world pickup
\* without transfer match and D < 30000; R8 iff the same holds with
\* 30000 <= D < 21600000 (6 h); it emits at most one of the three, and none of
\* them when the origin_id was never seen.
C18_Origin ==
    \A k \in Acquired :
        LET e == log[k].event
            out == log[k].out
        IN  IF OriginOf(e) = "" \/ SeenBefore(k) = {}
            THEN RuleIds(out) \cap {"R3", "R5", "R8"} = {}
            ELSE LET prev == log[LastSeen(k)].event
                     D == Abs(e.event_time - prev.event_time)
                     same == PlayerOf(prev) = PlayerOf(e)
                     pickup == WorldPickup(e) /\ ~Matched(k)
                 IN  /\ "R3" \in RuleIds(out) <=> (~same /\ D < 10000)
                     /\ "R5" \in RuleIds(out) <=> (same /\ pickup /\ D < 30000)
                     /\ "R8" \in RuleIds(out) <=>
                            (same /\ pickup /\ 30000 <= D /\ D < 21600000)
                     /\ CountOf(out, "R3") + CountOf(out, "R5") + CountOf(out, "R8") <= 1

\* origin o1 went from player B to player A after 9999 ms (R3) and was picked up
\* again by A 21590000 ms later (R8)
C18_Witness ==
    /\ Len(log) = 3
    /\ PlayerOf(log[1].event) = "B"
    /\ log[2].event = Acquire("A", 1, 9999, 3)
    /\ RuleIds(log[2].out) \cap {"R3", "R5", "R8"} = {"R3"}
    /\ log[3].event = Acquire("A", 1, R8_WINDOW_MS - 1, 3)
    /\ RuleIds(log[3].out) \cap {"R3", "R5", "R8"} = {"R8"}


\* the entries of the log that are world pickups without transfer match
Pickups == {k \in Acquired : WorldPickup(log[k].event) /\ ~Matched(k)}
PickupKey(e) == <<PlayerOf(e), e.item_id, IF e.nbt_hash = <<>> THEN "" ELSE e.nbt_hash[1]>>
\* the pickups of the key of pickup k that came before it
PickupsBefore(k) ==
    {j \in Pickups : j < k /\ PickupKey(log[j].event) = PickupKey(log[k].event)}
FirstPickup(k) == CHOOSE j \in PickupsBefore(k) : TRUE
\* pickup k is the second of its key, at most 15000 ms from the first
SecondWithin(k) ==
    /\ Cardinality(PickupsBefore(k)) = 1
    /\ Abs(log[k].event.event_time - log[FirstPickup(k)].event.event_time) <= 15000
\* the first pickup of a key emits no R6; so does a pickup whose preceding pickups
\* all lie more than 15000 ms before it
NoFalseR6(k) ==
    (\A j \in PickupsBefore(k) : log[k].event.event_time - log[j].event.event_time > 15000)
        => "R6" \notin RuleIds(log[k].out)

\* C19 as stated: among the world pickups without transfer match of one (player,
\* item_id, nbt_hash), the first emits no R6, the second emits R6 when it is
\* within 15000 ms of the first, and a pickup whose preceding pickups all lie more
\* than 15000 ms before it emits no R6.
C19_Original ==
    \A k \in Pickups :
        /\ NoFalseR6(k)
        /\ SecondWithin(k) => "R6" \in RuleIds(log[k].out)

\* C19: the same, but the second pickup within 15000 ms of the first emits R6 only
\* while the first is still in its window: when both are in one batch, or when
\* the cleanup pass of the second one's batch, at wall-clock now, finds
\* now - first time <= 15000; otherwise cleanup has evicted the first and the second
\* emits no R6.
C19_Amended ==
    \A k \in Pickups :
        /\ NoFalseR6(k)
        /\ SecondWithin(k) =>
              ("R6" \in RuleIds(log[k].out)
                  <=> \/ log[FirstPickup(k)].batch = log[k].batch
                      \/ log[k].clock - log[FirstPickup(k)].event.event_time <= 15000)

\* a pickup at 0 and, in a later batch, the second one exactly 15000 ms later,
\* which emitted R6
C19_Witness ==
    /\ Len(log) >= 2
    /\ {1, 2} \subseteq Pickups
    /\ log[1].event.event_time = 0
    /\ log[2].event.event_time = 15000
    /\ PickupKey(log[1].event) = PickupKey(log[2].event)
    /\ log[1].batch # log[2].batch
    /\ "R6" \in RuleIds(log[2].out)

\* the revision the hub holds for a server, 0 when it holds none
HeldRevision(cache, persisted, server_id) ==
    IF current_envelope(cache, persisted, server_id) = None THEN 0
    ELSE current_envelope(cache, persisted, server_id)[1].revision

\* C23: a put that fails leaves the mod-config state as it was: a JSON null config is
\* rejected with BadRequest before anything is read, a failing load or save of the
\* file yields Internal, and no step of such a call, the failing one included,
\* changes the cache, the files, the revision of any server or any subscriber's
\* channel, nor returns an envelope.
C23_FailedPut ==
    /\ [](\A p \in Puts : put[p].pc = "failed"
             => put[p].error \in {"BadRequest", "Internal"} /\ put[p].envelope = None)
    /\ [][\A p \in Puts :
            (put'[p] # put[p] /\ put'[p].pc \in {"load", "save", "failed"})
               => /\ UNCHANGED <<mod_configs, disk, inbox, received, returns>>
                  /\ \A s \in Servers :
                        HeldRevision(mod_configs', disk', s) = HeldRevision(mod_configs, disk, s)
                  /\ put'[p].pc = "failed"
                        => /\ put'[p].error = "BadRequest" <=> put[p].pc = "idle"
                           /\ put'[p].error = "Internal" <=> put[p].pc \in {"load", "save"}]_vars

\* after a put gave a server revision 1, a put with a null config and a put whose
\* save failed were made for it while a subscriber streamed: the cache still holds
\* revision 1 and the subscriber was handed nothing more
C23_Witness ==
    \E p, q, r \in Puts, s \in Subs :
        /\ put[p].pc = "done"
        /\ put[q].pc = "failed" /\ put[q].error = "Internal"
        /\ put[r].pc = "failed" /\ put[r].error = "BadRequest"
        /\ put[q].server_id = put[p].server_id
        /\ put[r].server_id = put[p].server_id
        /\ p < q /\ p < r
        /\ put[p].server_id \notin DOMAIN disk0
        /\ sub[s].pc = "stream" /\ sub[s].server_id = put[p].server_id
        /\ sub[s].since = 0
        /\ Revisions(received[s] \o inbox[s]) = <<1>>
        /\ HeldRevision(mod_configs, disk, put[p].server_id) = 1
        /\ mod_configs[put[p].server_id] = returns[1]

(***************************************************************************)
(* Claims about pull_mod_config                                            *)
(***************************************************************************)
Pulled == {c \in Pulls : pull[c].pc = "done"}

\* C22: pull(server_id, after_revision) returns the current envelope of the server
\* exactly when there is one and its revision is strictly greater than
\* after_revision (0 when absent), and returns empty otherwise; what it returns is
\* never another envelope than the current one.  The current envelope is the one
\* get_mod_config resolves: the cached envelope at the read of the cache, and on a
\* miss the persisted file at the moment it is loaded (which is the hub's state as
\* long as nothing was cached in between).
C22_Pull ==
    /\ [](\A c \in Pulled :
            LET seen == pull[c].envelope
                after == unwrap_or(pull[c].after_revision, 0)
            IN  /\ pull[c].result # None <=> (seen # None /\ seen[1].revision > after)
                /\ pull[c].result \in {None, seen}
                /\ seen # None => seen[1].server_id = pull[c].server_id)
    /\ [][\A c \in Pulls :
            /\ (pull[c].pc = "idle" /\ pull'[c].pc = "done")
                  => /\ pull'[c].envelope # None
                     /\ pull'[c].envelope
                          = current_envelope(mod_configs, disk, pull'[c].server_id)
            /\ (pull[c].pc = "load" /\ pull'[c].pc \in {"insert", "done"})
                  => /\ pull'[c].envelope = cache_get(disk, pull[c].server_id)
                     /\ (cache_get(mod_configs, pull[c].server_id) = None
                           => pull'[c].envelope
                                = current_envelope(mod_configs, disk, pull[c].server_id))
            /\ (pull[c].pc = "insert" /\ pull'[c].pc = "done")
                  => pull'[c].envelope = pull[c].envelope]_vars

\* two puts gave a server revisions 1 and 2; a pull with after_revision = 1 returned
\* the envelope of revision 2, and another pull with after_revision = 1 made when
\* revision 1 was current returned empty
C22_Witness ==
    \E c, b \in Pulled :
        /\ pull[c].server_id \notin DOMAIN disk0
        /\ pull[b].server_id = pull[c].server_id
        /\ pull[c].after_revision = Some(1)
        /\ pull[b].after_revision = Some(1)
        /\ pull[b].envelope # None
        /\ pull[b].envelope[1].revision = 1
        /\ pull[b].result = None
        /\ pull[c].result # None
        /\ pull[c].result[1].revision = 2
        /\ pull[c].result = current_envelope(mod_configs, disk, pull[c].server_id)

(***************************************************************************)
(* Claims about update_key_items                                           *)
(***************************************************************************)
\* the incoming rule has, once normalized, an empty item_id, an item_id without
\* ':', threshold 0 or a risk level other than LOW, MEDIUM, HIGH
Refused(rule) ==
    \/ normalized(rule).item_id = ""
    \/ ~contains_colon(normalized(rule).item_id)
    \/ normalized(rule).threshold = 0
    \/ normalized(rule).risk_level \notin {"LOW", "MEDIUM", "HIGH"}

HasRefused(incoming) == \E i \in DOMAIN incoming : Refused(incoming[i])

\* C24: rule replace is all-or-nothing.  A call with a refused incoming rule fails
\* with BadRequest, and only such a call does; no step of a call that fails, with
\* BadRequest or (save_key_items failing) with Internal, changes the rule file or
\* the in-memory mapping; the file is only written with the rules of a call that
\* passed the checks, and the mapping is only swapped by a call whose
\* save_key_items succeeded, to the rules of that call.
C24_AllOrNothing ==
    /\ [](\A c \in Replaces : replace[c].pc # "idle"
            => /\ HasRefused(replace[c].incoming)
                     <=> (replace[c].pc = "failed" /\ replace[c].error = "BadRequest")
               /\ replace[c].pc \in {"swap", "done"} => replace[c].saved
               /\ replace[c].pc = "failed"
                     => ~replace[c].saved /\ replace[c].error \in {"BadRequest", "Internal"})
    /\ [][/\ \A c \in Replaces :
                (replace'[c] # replace[c] /\ replace'[c].pc \in {"save", "failed"})
                    => UNCHANGED <<files, key_rules>>
          /\ key_rules' # key_rules
                => \E c \in Replaces :
                      /\ replace[c].pc = "swap" /\ replace[c].saved
                      /\ replace'[c].pc = "done"
                      /\ key_rules' = collect_rules(replace[c].rules)
          /\ files' # files
                => \E c \in Replaces :
                      /\ replace[c].pc = "save" /\ replace'[c].pc = "swap"
                      /\ ~HasRefused(replace[c].incoming)
                      /\ files' = [files EXCEPT !["key_items"] = Some(replace[c].rules)]]_vars

\* a call whose second rule is refused and a call whose save failed were made on a
\* service started with a rule file: the file and the mapping are those of the start
C24_Witness ==
    \E c, b \in Replaces :
        /\ replace[c].pc = "failed" /\ replace[c].error = "BadRequest"
        /\ Len(replace[c].incoming) = 2
        /\ ~Refused(replace[c].incoming[1])
        /\ replace[b].pc = "failed" /\ replace[b].error = "Internal"
        /\ replace[b].incoming # <<>>
        /\ files["key_items"] = Some(<<from_api(normalized(OreRule))>>)
        /\ key_rules = collect_rules(files["key_items"][1])
        /\ DOMAIN key_rules = {"mod:ore"}

(***************************************************************************)
(* Claims about issue_op_token                                             *)
(***************************************************************************)
\* the request carries no group_id, or a blank one
NoGroup(request) == request.group_id = None \/ trim(request.group_id[1]) = ""

\* the request's group_id, trimmed, is one of op_token_allowed_group_ids
GroupAllowed(request) ==
    /\ ~NoGroup(request)
    /\ \E i \in DOMAIN op_config.op_token_allowed_group_ids :
          op_config.op_token_allowed_group_ids[i] = trim(request.group_id[1])

\* the mod-config requires tokens and holds a secret that is not blank
TokensEnabled(config) ==
    /\ "op_command_token_required" \in DOMAIN config
    /\ config["op_command_token_required"] = JsonBool(TRUE)
    /\ "op_command_token_secret" \in DOMAIN config
    /\ config["op_command_token_secret"].type = "string"
    /\ trim(config["op_command_token_secret"].text) # ""

\* C25: issue_op_token returns a token only if the request's group_id is one of
\* op_token_allowed_group_ids and the mod-config of the server has
\* op_command_token_required == true and a non-empty op_command_token_secret; a
\* missing or blank group_id yields BadRequest and a group outside the list yields
\* Unauthorized, for every op_token_admin_ids and every operator_id.
C25_Issue ==
    \A t \in Issues : op_token[t].pc \in {"done", "failed"}
        => /\ (op_token[t].pc = "done") <=> (op_token[t].token # None)
           /\ op_token[t].token # None
                 => /\ GroupAllowed(op_token[t].request)
                    /\ op_token[t].envelope # None
                    /\ op_token[t].envelope[1].server_id
                          = op_server_id(op_token[t].request.server_id)
                    /\ TokensEnabled(op_token[t].envelope[1].config)
           /\ NoGroup(op_token[t].request)
                 => op_token[t].pc = "failed" /\ op_token[t].error = "BadRequest"
           /\ (~NoGroup(op_token[t].request) /\ ~GroupAllowed(op_token[t].request))
                 => op_token[t].pc = "failed" /\ op_token[t].error = "Unauthorized"

\* one call of an allowed group was given a token; another, made by an operator who
\* is one of op_token_admin_ids for a group outside the list, was refused
C25_Witness ==
    \E t, u \in Issues :
        /\ op_token[t].pc = "done"
        /\ op_token[t].request.group_id = Some(" group_a ")
        /\ op_token[t].token[1][1] = TOKEN_PREFIX
        /\ op_config.op_token_admin_ids = <<"admin_1">>
        /\ op_token[u].request.operator_id = Some("admin_1")
        /\ op_token[u].request.group_id = Some("group_b")
        /\ op_token[u].pc = "failed" /\ op_token[u].error = "Unauthorized"

(***************************************************************************)
(* Claims about the config store                                           *)
(***************************************************************************)
\* what a load operation gives for a missing file when it gives the empty value
\* or the default
DefaultOf(kind) ==
    CASE kind = "key_items" -> LoadOk(EmptyMap)
      [] kind = "item_registry" -> LoadOk(<<>>)
      [] kind = "rcon" -> LoadOk(RconDefault)
      [] kind = "mod_config" -> LoadOk(None)
      [] kind = "mod_config_ack" -> LoadOk(None)

\* C26: every load operation of the config store (key-item rules, item registry,
\* RCON config, mod-config envelope, mod-config ack) returns the empty value or the
\* default, never an error, when its file is absent.
C26_Claim ==
    (last_load.op # "" /\ last_load.absent) => last_load.result = DefaultOf(last_load.op)

(***************************************************************************)
(* Claims about the cleanup pass of the detector                           *)
(***************************************************************************)
\* the detector right after the cleanup pass of the last batch: what its first
\* event met, or what an empty batch left
AfterCleanup == IF trace = <<>> THEN analyzer ELSE trace[1].pre

\* no entry of a window map is older than win at the wall clock of the last batch
FreshTimes(windows, win) ==
    \A k \in DOMAIN windows : \A i \in DOMAIN windows[k] : now - windows[k][i] <= win
FreshRecords(windows, win) ==
    \A k \in DOMAIN windows : \A i \in DOMAIN windows[k] : now - windows[k][i].time_ms <= win

\* C27: after the cleanup pass that starts every analyze_batch, none of
\* transfer_cache, origin_seen, key_item_windows, pickup_windows, audit_windows and
\* strict_pickup_windows holds a record older than the structure's window at
\* wall-clock now (for origin_seen the longest window its entries are compared
\* with, 6 h), in whatever order the records were inserted.
C27_Claim ==
    /\ \A i \in DOMAIN AfterCleanup.transfer_cache :
          now - AfterCleanup.transfer_cache[i].time_ms <= transfer_window_ms
    /\ \A o \in DOMAIN AfterCleanup.origin_seen :
          now - AfterCleanup.origin_seen[o][2] <= R8_WINDOW_MS
    /\ FreshTimes(AfterCleanup.key_item_windows, key_item_window_ms)
    /\ FreshTimes(AfterCleanup.pickup_windows, DUP_PICKUP_WINDOW_MS)
    /\ FreshRecords(AfterCleanup.audit_windows, AUDIT_WINDOW_MS)
    /\ FreshRecords(AfterCleanup.strict_pickup_windows, strict_pickup_window_ms)

\* no key of a window map holds an empty window
NoEmptyKey(windows) == \A k \in DOMAIN windows : windows[k] # <<>>

\* C28: after the cleanup pass no window map of the detector (key_item_windows,
\* pickup_windows, audit_windows, strict_pickup_windows) retains a key whose window
\* is empty, so every retained key holds at least one record.
C28_Claim ==
    /\ NoEmptyKey(AfterCleanup.key_item_windows)
    /\ NoEmptyKey(AfterCleanup.pickup_windows)
    /\ NoEmptyKey(AfterCleanup.audit_windows)
    /\ NoEmptyKey(AfterCleanup.strict_pickup_windows)

(***************************************************************************)
(* Claims about the window sums of the detector                            *)
(***************************************************************************)
\* the counts of the records of a window that lie within win of time
RECURSIVE SumWithin(_, _, _)
SumWithin(window, time, win) ==
    IF window = <<>> THEN 0
    ELSE (IF time - window[1].time_ms <= win THEN window[1].count ELSE 0)
         + SumWithin(Tail(window), time, win)

\* the entries of the log that are inventory audits without transfer match
Audits == {k \in Acquired : log[k].event.origin_type = Some("inventory_audit") /\ ~Matched(k)}
\* what the audit entries of the key of entry k, met by entry k and within 30000 ms
\* of it, add up to
AuditSumBefore(k) ==
    SumWithin(or_default(log[k].pre.audit_windows, PickupKey(log[k].event)),
              log[k].event.event_time, AUDIT_WINDOW_MS)

\* C29: an ACQUIRE with origin_type inventory_audit and no transfer match emits R7
\* exactly when the sum of the counts of the audit entries of its (player_uuid,
\* item_id, nbt_hash) that lie within 30000 ms of it is below 16 before the event and
\* at least 16 with it; in particular no R7 is emitted while that sum stays at or
\* above 16.
C29_Claim ==
    \A k \in Audits :
        ("R7" \in RuleIds(log[k].out))
            <=> /\ AuditSumBefore(k) < AUDIT_THRESHOLD
                /\ AuditSumBefore(k) + log[k].event.count >= AUDIT_THRESHOLD

StrictKey(e) == <<PlayerOf(e), e.item_id>>
\* what the strict-window records of the key of entry k, met by entry k and within
\* the strict window of it, add up to
StrictSumBefore(k) ==
    SumWithin(or_default(log[k].pre.strict_pickup_windows, StrictKey(log[k].event)),
              log[k].event.event_time, strict_pickup_window_ms)

\* C30: with strict mode enabled, a world-pickup ACQUIRE without transfer match
\* emits R10 iff the counts recorded for its (player_uuid, item_id) within the strict
\* window of the event, its own count included, reach the strict threshold, and when
\* R10 fires the window of the key is left empty; with strict mode disabled no event
\* emits R10 and strict_pickup_windows stays empty.
C30_Claim ==
    /\ strict_enabled =>
          \A k \in Pickups :
              /\ ("R10" \in RuleIds(log[k].out))
                    <=> StrictSumBefore(k) + log[k].event.count >= strict_pickup_threshold
              /\ ("R10" \in RuleIds(log[k].out))
                    => log[k].post.strict_pickup_windows[StrictKey(log[k].event)] = <<>>
    /\ ~strict_enabled =>
          \A k \in DOMAIN log :
              /\ "R10" \notin RuleIds(log[k].out)
              /\ log[k].post.strict_pickup_windows = EmptyMap

(***************************************************************************)
(* Claims about snapshot events                                            *)
(***************************************************************************)
Snapshots ==
    {i \in DOMAIN trace : /\ trace[i].event.event_type \in {"INVENTORY_SNAPSHOT", "STORAGE_SNAPSHOT"}
                          /\ Accepted(trace[i].event)}
\* a rule exists for the item of e, its effective threshold is > 0 and the count of
\* e exceeds it
OverThreshold(e) ==
    /\ e.item_id \in DOMAIN key_rules
    /\ ThresholdOf(key_rules[e.item_id]) > 0
    /\ e.count > ThresholdOf(key_rules[e.item_id])

\* C31: an INVENTORY_SNAPSHOT or STORAGE_SNAPSHOT event emits exactly one anomaly
\* (R9 for inventory, R12 for storage, at the rule's risk level) when a rule exists
\* for its item_id with effective threshold > 0 and count > threshold, and nothing
\* otherwise; in both cases the detector's structures are left as they were.
C31_Snapshot ==
    \A i \in Snapshots :
        LET e == trace[i].event
            out == trace[i].out
        IN  /\ trace[i].post = trace[i].pre
            /\ IF OverThreshold(e)
               THEN /\ Len(out) = 1
                    /\ out[1].rule_id = (IF e.event_type = "INVENTORY_SNAPSHOT" THEN "R9" ELSE "R12")
                    /\ out[1].risk_level = RiskOf(key_rules[e.item_id])
               ELSE out = <<>>

\* one batch held a snapshot that emitted R9, a storage snapshot at the threshold
\* that emitted nothing, and both met a detector that already held records
C31_Witness ==
    /\ \E i \in Snapshots : /\ RuleIds(trace[i].out) = {"R9"}
                            /\ trace[i].pre.origin_seen # EmptyMap
    /\ \E i \in Snapshots : /\ trace[i].event.event_type = "STORAGE_SNAPSHOT"
                            /\ trace[i].event.item_id \in DOMAIN key_rules
                            /\ trace[i].event.count = ThresholdOf(key_rules[trace[i].event.item_id])
                            /\ trace[i].out = <<>>

(***************************************************************************)
(* Claims about the reuse of transfer records                              *)
(***************************************************************************)
\* the events of the last batch that are ACQUIREs with a transfer match
MatchedAcquires ==
    {i \in DOMAIN trace : /\ trace[i].event.event_type = "ACQUIRE"
                          /\ Accepted(trace[i].event)
                          /\ CachedMatch(trace[i].pre.transfer_cache, trace[i].event)}

\* C36: transfer matching does not consume the matched record: every ACQUIRE that
\* meets a cached record with its player_uuid, item_fingerprint and count inside
\* the transfer window leaves the cache as it was, emits R0 and emits none of R1,
\* R2, R5, R6, R7, R8, R10, however many such ACQUIREs came before it.
C36_Claim ==
    \A i \in MatchedAcquires :
        /\ trace[i].post.transfer_cache = trace[i].pre.transfer_cache
        /\ "R0" \in RuleIds(trace[i].out)
        /\ RuleIds(trace[i].out) \cap Suppressed = {}

(***************************************************************************)
(* Claims about the order of the window deques                             *)
(***************************************************************************)
SortedTimes(windows) == \A k \in DOMAIN windows : Sorted(windows[k])
SortedRecords(windows) ==
    \A k \in DOMAIN windows :
        \A a, b \in DOMAIN windows[k] : a < b => windows[k][a].time_ms <= windows[k][b].time_ms
\* the entries of the log that are ACQUIREs of an item with a rule of threshold > 0
Counted ==
    {k \in Acquired : /\ log[k].event.item_id \in DOMAIN key_rules
                      /\ ThresholdOf(key_rules[log[k].event.item_id]) > 0}

\* C37: whatever the time order of the events, every window deque of the detector
\* (key_item, pickup, audit, strict) is sorted by non-decreasing time, and right
\* after an ACQUIRE was processed for a key, the window of that key holds no entry
\* older than the window length relative to the time of that event.
C37_Claim ==
    /\ SortedTimes(analyzer.key_item_windows)
    /\ SortedTimes(analyzer.pickup_windows)
    /\ SortedRecords(analyzer.audit_windows)
    /\ SortedRecords(analyzer.strict_pickup_windows)
    /\ \A k \in Counted :
          LET w == log[k].post.key_item_windows[StrictKey(log[k].event)]
          IN  \A i \in DOMAIN w : log[k].event.event_time - w[i] <= key_item_window_ms
    /\ \A k \in Pickups :
          LET w == log[k].post.pickup_windows[PickupKey(log[k].event)]
          IN  \A i \in DOMAIN w : log[k].event.event_time - w[i] <= DUP_PICKUP_WINDOW_MS
    /\ \A k \in Audits :
          LET w == log[k].post.audit_windows[PickupKey(log[k].event)]
          IN  \A i \in DOMAIN w : log[k].event.event_time - w[i].time_ms <= AUDIT_WINDOW_MS
    /\ strict_enabled =>
          \A k \in Pickups :
              LET w == log[k].post.strict_pickup_windows[StrictKey(log[k].event)]
              IN  \A i \in DOMAIN w :
                      log[k].event.event_time - w[i].time_ms <= strict_pickup_window_ms

(***************************************************************************)
(* Claims about the cache and the file after concurrent puts               *)
(***************************************************************************)
\* no put_mod_config call is under way, and no reader ever ran
PutsCompleted ==
    /\ \A p \in Puts : put[p].pc \in {"idle", "done", "failed"}
    /\ \A s \in Subs : sub[s].pc = "idle"

\* C38: once all the put operations issued for a server have completed, the cached
\* envelope of that server equals the envelope persisted on disk (same revision,
\* checksum and config).
C38_Claim ==
    PutsCompleted =>
        \A server_id \in DOMAIN mod_configs :
            /\ server_id \in DOMAIN disk
            /\ mod_configs[server_id] = disk[server_id]

(***************************************************************************)
(* Claims about concurrent update_key_items calls                          *)
(***************************************************************************)
\* the mapping the rule file stands for
PersistedRules ==
    IF files["key_items"] = None THEN EmptyMap ELSE collect_rules(files["key_items"][1])
\* the mappings the service may have been started with
InitialRules == {EmptyMap, collect_rules(<<from_api(normalized(OreRule))>>)}
\* the complete mappings of the replace calls that reached their save
ReplaceRules == {collect_rules(replace[c].rules) : c \in {b \in Replaces : replace[b].saved}}

\* C39: once all the rule replace operations have completed, the in-memory rule
\* mapping the detector uses equals the rule set persisted in the key-items file;
\* and at any time the mapping a reader snapshots is the complete rule set of one
\* replace call, or the initial one.
C39_Claim ==
    /\ (\A c \in Replaces : replace[c].pc \in {"idle", "done", "failed"})
           => key_rules = PersistedRules
    /\ key_rules \in InitialRules \cup ReplaceRules

(***************************************************************************)
(* Claims about the socket mode of the alert service                       *)
(***************************************************************************)
\* the message is a response that carries the echo of the sent action
EchoMatches(message) ==
    /\ message.kind = "text" /\ message.text # <<>>
    /\ "echo" \in DOMAIN message.text[1]
    /\ message.text[1]["echo"] = [type |-> "string", text |-> SentEcho]
\* the response reports success: status "ok" or retcode 0
ReportsOk(message) ==
    \/ "status" \in DOMAIN message.text[1]
         /\ message.text[1]["status"] = [type |-> "string", text |-> "ok"]
    \/ "retcode" \in DOMAIN message.text[1]
         /\ message.text[1]["retcode"] = [type |-> "number", text |-> "0"]

\* C32: a send attempt in socket mode succeeds only if, within 8 s of sending, a
\* response arrived whose echo equals the echo of the sent action and whose status
\* is "ok" or whose retcode is 0; responses with another echo or without echo are
\* passed over and never make the attempt succeed; a rejection with the matching
\* echo, a close, a receive error, the end of the stream or the timeout make it
\* fail.
C32_Attempt ==
    \A i \in DOMAIN ws.tries :
        LET try == ws.tries[i]
        IN  /\ try.outcome = "ok"
                <=> /\ try.sent /\ try.decided # <<>>
                    /\ try.at < WS_RESPONSE_TIMEOUT_SECONDS
                    /\ EchoMatches(try.decided[1]) /\ ReportsOk(try.decided[1])
            /\ \A k \in DOMAIN try.ignored : ~EchoMatches(try.ignored[k])
            /\ (try.decided # <<>> /\ try.decided[1].kind \in {"close", "error", "end"})
                   => try.outcome \in {"closed", "receive", "ended"}
            /\ (try.sent /\ try.decided = <<>>) => try.outcome = "timeout"

\* a try passed over a response "ok" that carried another echo, then succeeded
\* seconds later on a response with its echo, status "failed" and retcode 0; and
\* another try of the same call had been rejected
C32_Witness ==
    /\ \E i \in DOMAIN ws.tries :
          /\ ws.tries[i].outcome = "ok" /\ ws.tries[i].at > 0
          /\ ws.tries[i].decided[1].text[1]["status"].text = "failed"
          /\ \E k \in DOMAIN ws.tries[i].ignored :
                /\ ws.tries[i].ignored[k].kind = "text"
                /\ ws.tries[i].ignored[k].text # <<>>
                /\ "echo" \in DOMAIN ws.tries[i].ignored[k].text[1]
                /\ ws.tries[i].ignored[k].text[1]["echo"].text = "lattice-0"
    /\ \E i \in DOMAIN ws.tries : ws.tries[i].outcome = "rejected"

\* the number of times the call has sent the action payload so far
PayloadsSent ==
    Cardinality({i \in DOMAIN ws.tries : ws.tries[i].sent}) + (IF ws.sent THEN 1 ELSE 0)

\* C33: in socket mode the second connection, with access_token in the query
\* string, is opened only when the handshake of the header-authenticated connection
\* failed and a token is configured; once the action payload was sent on the first
\* connection it is not sent again within the same call.
C33_Claim ==
    /\ ws.use_query => /\ ws.token # None
                       /\ ws.tries # <<>> /\ ws.tries[1].outcome = "handshake"
    /\ PayloadsSent <= 1

(***************************************************************************)
(* Claims about the stream hub under a slow subscriber                     *)
(***************************************************************************)
\* the number of the last envelope among the first i results of recv(), 0 if none
RECURSIVE LastEnvelope(_)
LastEnvelope(i) ==
    IF i = 0 THEN 0
    ELSE IF ring.got[i].kind = "envelope" THEN ring.got[i].value
    ELSE LastEnvelope(i - 1) + ring.got[i].value

\* the envelopes reach the stream in publication order, and the only ones it does
\* not get are those a Lagged signal counted
InPublicationOrder ==
    \A i \in 1..Len(ring.got) :
        ring.got[i].kind = "envelope" => ring.got[i].value = LastEnvelope(i - 1) + 1

\* a receiver more than CHANNEL_BUFFER messages behind gets a Lagged on its next
\* recv(), stays subscribed and has the oldest retained envelope next
LagIsSignalled ==
    (/\ ring.pc = "stream"
     /\ ring.pos - ring.next > CHANNEL_BUFFER
     /\ ring'.got # ring.got)
        => /\ ring'.got[Len(ring'.got)].kind = "lagged"
           /\ ring'.pc = "stream"
           /\ ring'.next = ring'.pos - CHANNEL_BUFFER
           /\ ring'.next < ring'.pos

\* publish is never refused, whatever the state of the subscriber
PublishNeverBlocks == ring.published < MaxPublishes => ENABLED RingPublish

\* C34: a subscriber more than 64 messages behind is not disconnected: its next
\* recv() returns Lagged, after which it receives the retained and all later
\* envelopes in publication order; publish never blocks or fails because of a slow
\* or an absent subscriber
C34_Channel ==
    /\ [](InPublicationOrder /\ PublishNeverBlocks)
    /\ [][LagIsSignalled]_vars

\* a subscriber that saw a Lagged and then every retained envelope and a later one,
\* on a channel whose first publish found no subscriber
C34_Witness ==
    /\ ring.pc = "stream"
    /\ ring.dropped = 1
    /\ \E i \in 1..Len(ring.got) :
        /\ ring.got[i].kind = "lagged"
        /\ Len(ring.got) > i + CHANNEL_BUFFER

(***************************************************************************)
(* Claims about the socket bridge                                          *)
(***************************************************************************)
BridgeTaskPc(i) == IF BridgeRuns(i) THEN bridge.tasks[i].pc ELSE "none"

\* a task of the bridge is connecting, connected or sleeping, never over
BridgeTaskLives ==
    \A i \in BridgeSlots : BridgeTaskPc(i) \in {"none", "connecting", "loop", "cooldown"}

\* every failed connect and every exit of the message loop puts the task to sleep,
\* and connect_ws is called again only after the whole cooldown
CooldownThenConnect ==
    \A i \in BridgeSlots :
        /\ (BridgeTaskPc(i) = "loop" /\ bridge'.tasks[i].pc # "loop")
            => bridge'.tasks[i].pc = "cooldown" /\ bridge'.tasks[i].elapsed = 0
        /\ (BridgeTaskPc(i) = "connecting" /\ bridge'.tasks[i].pc # "connecting")
            => \/ bridge'.tasks[i].pc = "loop"
               \/ bridge'.tasks[i].pc = "cooldown" /\ bridge'.tasks[i].elapsed = 0
        /\ (BridgeTaskPc(i) = "cooldown" /\ bridge'.tasks[i].pc # "cooldown")
            => /\ bridge'.tasks[i].pc = "connecting"
               /\ bridge.tasks[i].elapsed = RECONNECT_DELAY_SECONDS

\* C35: the task of every socket url never terminates: after every failed connect
\* and every exit of the message loop it waits the 5 s cooldown and connects again,
\* so a connect attempt always eventually follows a disconnect
C35_Reconnects ==
    /\ []BridgeTaskLives
    /\ [][CooldownThenConnect]_vars
    /\ \A i \in BridgeSlots : (BridgeTaskPc(i) = "cooldown") ~> (BridgeTaskPc(i) = "connecting")

\* two tasks, one connecting again after its peer closed the connection, the other
\* after a failed connect
C35_Witness ==
    /\ bridge.pc = "spawned"
    /\ Len(bridge.tasks) = 2
    /\ bridge.tasks[1].pc = "connecting" /\ bridge.tasks[1].exit = "closed by peer"
    /\ bridge.tasks[2].pc = "connecting" /\ bridge.tasks[2].exit = "connect failed"

(***************************************************************************)
(* Claims about the embedded start-up                                      *)
(***************************************************************************)
\* start_embedded returns Ok only once the listener has been bound
OkAfterBind == boot.result = "ok" => boot.bound_at_ok

\* an error return leaves no worker behind
NoWorkerLeft ==
    (boot.pc = "returned" /\ boot.result # "spawn failed") => boot.worker = "exited"

\* after the timeout the return does not wait for AppContext::new() to finish
TimeoutDoesNotWait ==
    (boot.pc = "joining" /\ boot.outcome = "timeout" /\ boot.worker = "context")
        => ENABLED CallerJoin

\* C40: start_embedded returns Ok only after the listener has been bound, and when
\* the worker does not signal startup within the 10 s timeout it returns a timeout
\* error without waiting for context initialization to finish, leaving no worker
\* running
C40_Claim == OkAfterBind /\ NoWorkerLeft /\ TimeoutDoesNotWait

====
